---- MODULE Spec2Model ----
(***************************************************************************)
(* Subscription lifecycle of the payment service (delegated-storage        *)
(* lineage): SubscriptionService orchestrating the payment processor       *)
(* (StripeService), the remote record store (DbServiceClient) and the      *)
(* identity service (AuthServiceClient).                                   *)
(*                                                                         *)
(* Every request runs in a slot.  A request is a sequence of steps, one    *)
(* per awaited outbound call: the step is the instant the collaborator     *)
(* serves the call, together with the synchronous code that runs up to the *)
(* next await.  Under Spec requests are served one after the other; under  *)
(* RaceSpec the steps of create and startPaidSubscription requests         *)
(* interleave.                                                             *)
(*                                                                         *)
(* Time is counted in ticks since 2024-01-01T00:00 (the process clock is   *)
(* taken to be UTC); dates are converted with the ECMAScript Date          *)
(* algorithms (MakeDay and its inverses).                                  *)
(***************************************************************************)
EXTENDS Integers, Sequences, FiniteSets, TLC

VARIABLES
  now,     \* the clock: new Date()
  ticks,   \* how often the clock has advanced
  subs,    \* the record store's subscriptions, in insertion order
  stripe,  \* the processor: customers created, subscriptions created
  req,     \* the request served in each slot
  payments, \* the record store's payments, in insertion order
  delivered \* how many processor events have been delivered

vars == <<now, ticks, subs, stripe, req, payments, delivered>>

----------------------------------------------------------------------------
(* Bounds of the model *)

\* request slots: how many requests can be in flight or awaiting pickup
MaxSlots == 2
\* how many times the clock advances in one behaviour
MaxTicks == 1
\* how many processor customers / processor subscriptions are ever created
MaxCustomers == 2
MaxStripeSubs == 2
\* clock resolution
TicksPerDay == 2
\* how many payments the store ever holds / payment intents the processor names
MaxPayments == 2
MaxIntents == 2
\* how many events the processor delivers in one behaviour
MaxEvents == 2

Slots == 1 .. MaxSlots
\* the user ids of the store
Users == {"u1", "u2"}
\* the users whose requests are served; the other one's subscription stands by
Callers == {"u1"}
Plans == {"monthly", "yearly"}
Statuses == {"trial", "active", "past_due", "canceled", "unpaid"}
Operations == {"create", "startPaid", "cancel", "changePlan"}

\* an optional id or date that is not set
Absent == 0 - 1

----------------------------------------------------------------------------
(* ECMAScript Date arithmetic, on day numbers since 2024-01-01 *)

FirstYear == 2024

IsLeap(y) == (y % 4 = 0 /\ y % 100 # 0) \/ y % 400 = 0

DaysInYear(y) == IF IsLeap(y) THEN 366 ELSE 365

DaysInMonth(y, m) ==
  IF m = 1 THEN (IF IsLeap(y) THEN 29 ELSE 28)
  ELSE IF m \in {3, 5, 8, 10} THEN 30 ELSE 31

RECURSIVE DayFromYear(_)
DayFromYear(y) == IF y <= FirstYear THEN 0 ELSE DayFromYear(y - 1) + DaysInYear(y - 1)

RECURSIVE DayFromMonth(_, _)
\* days from the start of year y to the start of its month m (0-based)
DayFromMonth(y, m) == IF m = 0 THEN 0 ELSE DayFromMonth(y, m - 1) + DaysInMonth(y, m - 1)

\* MakeDay(year, month, date): month may exceed 11 and date may exceed the
\* month's length; both carry over
MakeDay(y, m, dt) == DayFromYear(y + (m \div 12)) + DayFromMonth(y + (m \div 12), m % 12) + dt - 1

RECURSIVE YearFromDay(_, _)
YearFromDay(d, y) == IF d < DayFromYear(y + 1) THEN y ELSE YearFromDay(d, y + 1)

RECURSIVE MonthFromDay(_, _, _)
MonthFromDay(d, y, m) ==
  IF d < DayFromYear(y) + DayFromMonth(y, m) + DaysInMonth(y, m) THEN m
  ELSE MonthFromDay(d, y, m + 1)

getFullYear(t) == YearFromDay(t \div TicksPerDay, FirstYear)
getMonth(t) == MonthFromDay(t \div TicksPerDay, getFullYear(t), 0)
getDate(t) == (t \div TicksPerDay) - MakeDay(getFullYear(t), getMonth(t), 1) + 1
TimeWithinDay(t) == t % TicksPerDay

\* MakeDate(MakeDay(...), TimeWithinDay)
MakeDate(y, m, dt, t) == MakeDay(y, m, dt) * TicksPerDay + TimeWithinDay(t)

setDate(t, dt) == MakeDate(getFullYear(t), getMonth(t), dt, t)
setMonth(t, m) == MakeDate(getFullYear(t), m, getDate(t), t)
setFullYear(t, y) == MakeDate(y, getMonth(t), getDate(t), t)

TrialDays == 30

\* a trial that ends on the same date of the next month
TrialEndNextMonth(t) == setMonth(t, getMonth(t) + 1)

\* trialEnd.setDate(trialEnd.getDate() + 30)
TrialEndFrom(t) == setDate(t, getDate(t) + TrialDays)

\* nextBillingDate.setMonth(getMonth() + 1) / setFullYear(getFullYear() + 1)
NextBillingFrom(t, plan) ==
  IF plan = "monthly" THEN setMonth(t, getMonth(t) + 1)
  ELSE setFullYear(t, getFullYear(t) + 1)

----------------------------------------------------------------------------
(* The remote record store (DbServiceClient) *)

\* fields the record store fills in when the create request leaves them out
SubscriptionDefaults ==
  [stripeSubscriptionId |-> Absent, cancelAtPeriodEnd |-> FALSE,
   cardValidated |-> FALSE, canceledAt |-> Absent]

\* the fields of dto replace those of rec
Merge(rec, dto) == [f \in DOMAIN rec |-> IF f \in DOMAIN dto THEN dto[f] ELSE rec[f]]

\* dto completed with the defaults
NewSubscription(dto) ==
  [f \in DOMAIN dto \cup DOMAIN SubscriptionDefaults |->
     IF f \in DOMAIN dto THEN dto[f] ELSE SubscriptionDefaults[f]]

IndexesOfUser(store, u) == {i \in 1 .. Len(store) : store[i].userId = u}

FirstOf(S) == CHOOSE i \in S : \A j \in S : i <= j

\* GET /subscriptions/user/:userId, 404 read as null
findSubscriptionByUserId(store, u) ==
  IF IndexesOfUser(store, u) = {} THEN {} ELSE {store[FirstOf(IndexesOfUser(store, u))]}

\* POST /subscriptions
createSubscription(store, dto) == Append(store, NewSubscription(dto))

\* PUT /subscriptions/user/:userId
updateSubscriptionByUserId(store, u, dto) ==
  [store EXCEPT ![FirstOf(IndexesOfUser(store, u))] = Merge(@, dto)]

\* a plan change that also makes the subscription active
changePlanAndActivate(store, u, plan) ==
  updateSubscriptionByUserId(store, u, [plan |-> plan, status |-> "active"])

\* PUT /subscriptions/user/:userId/plan
changeSubscriptionPlan(store, u, plan) == updateSubscriptionByUserId(store, u, [plan |-> plan])

----------------------------------------------------------------------------
(* Request slots.  A slot keeps what the handler keeps in its local         *)
(* variables and still uses after the lookup, the calls it has issued, and  *)
(* its result once it is done.                                              *)

\* the fields of a processor event the handlers read; a request that is not a
\* webhook carries none
NoEvent ==
  [type |-> "none", subscription |-> Absent, payment_intent |-> Absent,
   status |-> "none", current_period_start |-> Absent, current_period_end |-> Absent,
   cancel_at_period_end |-> FALSE, canceled_at |-> Absent,
   amount_due |-> 0, amount_paid |-> 0]

Idle ==
  [op |-> "idle", pc |-> "idle", user |-> "u1", plan |-> "monthly", flag |-> TRUE,
   cust |-> Absent, ssub |-> Absent, status |-> "none", trialEnd |-> Absent,
   result |-> "none", reply |-> {}, calls |-> <<>>, event |-> NoEvent, at |-> Absent,
   subscriptionId |-> Absent, signature |-> "none"]

Called(r, call) == [r EXCEPT !.calls = Append(@, call)]

\* the request ends with a result
Finish(r, result) == [r EXCEPT !.pc = "done", !.result = result]

\* a handler that logs the rejection of an awaited call and returns normally
FailSwallowed(r, call) == Finish(Called(r, call), "ok")

\* an awaited call rejects with a technical failure, which the handler rethrows
Fail(r, call) == Finish(Called(r, call), "Upstream")

\* a finished request is picked up by its caller before anything else is served
NoneDone == \A s \in Slots : req[s].pc # "done"

\* a request that arrives takes the first free slot
FreeSlot(s) == NoneDone /\ req[s].pc = "idle" /\ \A q \in Slots : q < s => req[q].pc # "idle"

\* request s is waiting for the call it issued at step pc
At(s, op, pc) == NoneDone /\ req[s].op = op /\ req[s].pc = pc

\* a request of kind op for user u, its lookup served
Arrived(op, u) == [Called(Idle, "db.find") EXCEPT !.op = op, !.user = u]

----------------------------------------------------------------------------
(* SubscriptionService.create *)

\* the trial projection create persists
TrialProjection(u, plan, cust, t) ==
  [userId |-> u, stripeCustomerId |-> cust, status |-> "trial", plan |-> plan,
   trialStart |-> t, trialEnd |-> TrialEndFrom(t), isTrialActive |-> TRUE,
   currentPeriodStart |-> t, currentPeriodEnd |-> TrialEndFrom(t),
   nextBillingDate |-> TrialEndFrom(t)]

\* a create that does not look at what it found
CreateUnchecked(found) == "go"

\* the lookup's outcome: "BadRequest", or "go" to carry on
CreateCheck(found) == IF found # {} THEN "BadRequest" ELSE "go"

CreateFind(s, u, plan) ==
  /\ FreeSlot(s)
  /\ LET found == findSubscriptionByUserId(subs, u)
         r == [Arrived("create", u) EXCEPT !.plan = plan]
     IN req' = [req EXCEPT ![s] =
                  IF CreateCheck(found) = "go" THEN [r EXCEPT !.pc = "customer"]
                  ELSE Finish(r, CreateCheck(found))]
  /\ UNCHANGED <<now, ticks, subs, stripe, payments, delivered>>

CreateCustomer(s) ==
  /\ At(s, "create", "customer")
  /\ stripe.customers < MaxCustomers
  /\ stripe' = [stripe EXCEPT !.customers = @ + 1]
  /\ req' = [req EXCEPT ![s] = [Called(@, "stripe.createCustomer") EXCEPT
                                  !.cust = stripe.customers + 1, !.pc = "persist"]]
  /\ UNCHANGED <<now, ticks, subs, payments, delivered>>

CreatePersist(s) ==
  /\ At(s, "create", "persist")
  /\ LET r == req[s]
         dto == TrialProjection(r.user, r.plan, r.cust, now)
     IN /\ subs' = createSubscription(subs, dto)
        /\ req' = [req EXCEPT ![s] = [Called(@, "db.createSubscription") EXCEPT
                     !.status = "trial", !.trialEnd = dto.trialEnd, !.pc = "notify"]]
  /\ UNCHANGED <<now, ticks, stripe, payments, delivered>>

----------------------------------------------------------------------------
(* SubscriptionService.startPaidSubscription *)

\* getPriceId(plan), the price ids of the environment left unset
getPriceId(plan) == IF plan = "monthly" THEN "price_monthly_default" ELSE "price_yearly_default"

\* a startPaidSubscription that does not look at the status
StartPaidAnyStatus(found) == IF found = {} THEN "NotFound" ELSE "go"

\* the lookup's outcome: "NotFound", "BadRequest", or "go" to carry on
StartPaidCheck(found) ==
  IF found = {} THEN "NotFound"
  ELSE IF \E sub \in found : sub.status # "trial" THEN "BadRequest"
  ELSE "go"

StartPaidFind(s, u) ==
  /\ FreeSlot(s)
  /\ LET found == findSubscriptionByUserId(subs, u)
         r == Arrived("startPaid", u)
     IN req' = [req EXCEPT ![s] =
                  IF StartPaidCheck(found) = "go"
                  THEN CHOOSE q \in {[r EXCEPT !.plan = sub.plan, !.cust = sub.stripeCustomerId,
                                               !.pc = "stripeSub"] : sub \in found} : TRUE
                  ELSE Finish(r, StartPaidCheck(found))]
  /\ UNCHANGED <<now, ticks, subs, stripe, payments, delivered>>

\* stripeService.createSubscription(customer, priceId, trialPeriodDays)
StripeCreateSubscription(customer, price, trialDays) ==
  [stripe EXCEPT !.subs = Append(@, [customer |-> customer, price |-> price,
                                     trialDays |-> trialDays,
                                     cancelAtPeriodEnd |-> FALSE])]

StartPaidStripe(s) ==
  /\ At(s, "startPaid", "stripeSub")
  /\ Len(stripe.subs) < MaxStripeSubs
  /\ stripe' = StripeCreateSubscription(req[s].cust, getPriceId(req[s].plan), 0)
  /\ req' = [req EXCEPT ![s] = [Called(@, "stripe.createSubscription") EXCEPT
                                  !.ssub = Len(stripe.subs) + 1, !.pc = "persist"]]
  /\ UNCHANGED <<now, ticks, subs, payments, delivered>>

\* what startPaidSubscription writes; plan is the plan of the subscription it read
StartPaidUpdate(plan, ssub, t) ==
  [stripeSubscriptionId |-> ssub, status |-> "active", isTrialActive |-> FALSE,
   currentPeriodStart |-> t, currentPeriodEnd |-> NextBillingFrom(t, plan),
   nextBillingDate |-> NextBillingFrom(t, plan)]

StartPaidPersist(s) ==
  /\ At(s, "startPaid", "persist")
  /\ LET dto == StartPaidUpdate(req[s].plan, req[s].ssub, now)
     IN /\ subs' = updateSubscriptionByUserId(subs, req[s].user, dto)
        /\ req' = [req EXCEPT ![s] = [Called(@, "db.updateSubscription") EXCEPT
                     !.status = "active", !.trialEnd = dto.nextBillingDate,
                     !.pc = "notify"]]
  /\ UNCHANGED <<now, ticks, stripe, payments, delivered>>

----------------------------------------------------------------------------
(* SubscriptionController.cancel and SubscriptionService.cancel *)

CancelBodies == {"true", "false", "omitted"}

\* a flag that defaults to false
CancelFlagDefaultFalse(body) == body = "true"

\* const { cancelAtPeriodEnd = true } = body
CancelFlagOf(body) == IF body = "omitted" THEN TRUE ELSE body = "true"

\* a cancel that never asks the processor
CancelNeverCallsStripe(sub) == FALSE

\* whether cancel asks the processor to cancel
CancelCallsStripe(sub) == sub.stripeSubscriptionId # Absent

CancelFind(s, u, body) ==
  /\ FreeSlot(s)
  /\ LET found == findSubscriptionByUserId(subs, u)
         r == [Arrived("cancel", u) EXCEPT !.flag = CancelFlagOf(body)]
     IN req' = [req EXCEPT ![s] =
                  IF found = {} THEN Finish(r, "NotFound")
                  ELSE CHOOSE q \in {[r EXCEPT !.plan = sub.plan, !.ssub = sub.stripeSubscriptionId,
                                               !.pc = IF CancelCallsStripe(sub) THEN "stripeCancel"
                                                      ELSE "persist"] : sub \in found} : TRUE]
  /\ UNCHANGED <<now, ticks, subs, stripe, payments, delivered>>

\* stripeService.cancelSubscription(id, atPeriodEnd)
StripeCancelSubscription(id, atPeriodEnd) ==
  [stripe EXCEPT !.subs[id].cancelAtPeriodEnd = atPeriodEnd]

CancelStripe(s) ==
  /\ At(s, "cancel", "stripeCancel")
  /\ stripe' = StripeCancelSubscription(req[s].ssub, req[s].flag)
  /\ req' = [req EXCEPT ![s] = [Called(@, "stripe.cancelSubscription") EXCEPT
                                  !.pc = "persist"]]
  /\ UNCHANGED <<now, ticks, subs, payments, delivered>>

\* a cancel that writes the flag alone
CancelFlagOnly(cancelAtPeriodEnd, t) == [cancelAtPeriodEnd |-> cancelAtPeriodEnd]

\* updateData of cancel
CancelUpdate(cancelAtPeriodEnd, t) ==
  IF cancelAtPeriodEnd THEN [cancelAtPeriodEnd |-> cancelAtPeriodEnd]
  ELSE [cancelAtPeriodEnd |-> cancelAtPeriodEnd, status |-> "canceled", canceledAt |-> t]

CancelPersist(s) ==
  /\ At(s, "cancel", "persist")
  /\ subs' = updateSubscriptionByUserId(subs, req[s].user, CancelUpdate(req[s].flag, now))
  /\ \E upd \in findSubscriptionByUserId(subs', req[s].user) :
       req' = [req EXCEPT ![s] = [Called(@, "db.updateSubscription") EXCEPT
                 !.status = upd.status, !.pc = "notify"]]
  /\ UNCHANGED <<now, ticks, stripe, payments, delivered>>

----------------------------------------------------------------------------
(* SubscriptionService.changePlan *)

\* the lookup's outcome: "NotFound", or "go" to carry on
ChangePlanCheck(found, newPlan) == IF found = {} THEN "NotFound" ELSE "go"

ChangePlanFind(s, u, newPlan) ==
  /\ FreeSlot(s)
  /\ LET found == findSubscriptionByUserId(subs, u)
         r == [Arrived("changePlan", u) EXCEPT !.plan = newPlan]
     IN req' = [req EXCEPT ![s] =
                  IF ChangePlanCheck(found, newPlan) = "go"
                  THEN CHOOSE q \in {[r EXCEPT !.status = sub.status, !.pc = "persist"] :
                                       sub \in found} : TRUE
                  ELSE Finish(r, ChangePlanCheck(found, newPlan))]
  /\ UNCHANGED <<now, ticks, subs, stripe, payments, delivered>>

ChangePlanPersist(s) ==
  /\ At(s, "changePlan", "persist")
  /\ subs' = changeSubscriptionPlan(subs, req[s].user, req[s].plan)
  /\ req' = [req EXCEPT ![s] = [Called(@, "db.changeSubscriptionPlan") EXCEPT
                                  !.pc = "notify"]]
  /\ UNCHANGED <<now, ticks, stripe, payments, delivered>>

----------------------------------------------------------------------------
(* SubscriptionService.createSubscriptionWithCard *)

\* an attachment the processor does not record
StripeAttachNothing(customer) == stripe

\* stripeService.attachPaymentMethod(paymentMethodId, customer)
StripeAttachPaymentMethod(customer) == [stripe EXCEPT !.attached = @ \cup {customer}]

\* stripeService.updateCustomer(customer, {invoice_settings: {default_payment_method}})
StripeSetDefaultPaymentMethod(customer) == [stripe EXCEPT !.defaults = @ \cup {customer}]

\* the trial projection with the card validated flag
CardProjection(u, plan, cust, t) ==
  [f \in DOMAIN TrialProjection(u, plan, cust, t) \cup {"cardValidated"} |->
     IF f = "cardValidated" THEN TRUE ELSE TrialProjection(u, plan, cust, t)[f]]

\* the branch taken after the lookup: "new", "changePlan" or "create"
CardCheck(found, plan) ==
  IF found = {} THEN "new"
  ELSE IF \E sub \in found : sub.plan # plan THEN "changePlan"
  ELSE "create"

\* a card attached whatever the subscription says
CardAlwaysNeeded(sub) == TRUE

\* whether the card is attached to the customer of the existing subscription
CardNeeded(sub) == ~ sub.cardValidated /\ sub.stripeCustomerId # Absent

CardFind(s, u, plan) ==
  /\ FreeSlot(s)
  /\ LET found == findSubscriptionByUserId(subs, u)
         r == [Arrived("card", u) EXCEPT !.plan = plan]
     IN req' = [req EXCEPT ![s] =
                  IF CardCheck(found, plan) = "new" THEN [r EXCEPT !.pc = "customer"]
                  ELSE CHOOSE q \in {[r EXCEPT !.cust = sub.stripeCustomerId,
                                               !.flag = CardNeeded(sub),
                                               !.pc = IF CardCheck(found, plan) = "changePlan"
                                                      THEN "cpFind" ELSE "create"] :
                                       sub \in found} : TRUE]
  /\ UNCHANGED <<now, ticks, subs, stripe, payments, delivered>>

\* this.create(createSubscriptionDto): create runs from its lookup
CardCreate(s) ==
  /\ At(s, "card", "create")
  /\ LET found == findSubscriptionByUserId(subs, req[s].user)
         r == Called(req[s], "db.find")
     IN req' = [req EXCEPT ![s] =
                  IF CreateCheck(found) = "go"
                  THEN [r EXCEPT !.op = "create", !.cust = Absent, !.pc = "customer"]
                  ELSE Finish(r, CreateCheck(found))]
  /\ UNCHANGED <<now, ticks, subs, stripe, payments, delivered>>

\* this.changePlan(userId, plan): its lookup
CardChangePlanFind(s) ==
  /\ At(s, "card", "cpFind")
  /\ LET found == findSubscriptionByUserId(subs, req[s].user)
         r == Called(req[s], "db.find")
     IN req' = [req EXCEPT ![s] =
                  IF ChangePlanCheck(found, r.plan) = "go"
                  THEN CHOOSE q \in {[r EXCEPT !.status = sub.status, !.pc = "cpPersist"] :
                                       sub \in found} : TRUE
                  ELSE Finish(r, ChangePlanCheck(found, r.plan))]
  /\ UNCHANGED <<now, ticks, subs, stripe, payments, delivered>>

\* this.changePlan(userId, plan): its write
CardChangePlanPersist(s) ==
  /\ At(s, "card", "cpPersist")
  /\ subs' = changeSubscriptionPlan(subs, req[s].user, req[s].plan)
  /\ req' = [req EXCEPT ![s] = [Called(@, "db.changeSubscriptionPlan") EXCEPT
                                  !.pc = "cpNotify"]]
  /\ UNCHANGED <<now, ticks, stripe, payments, delivered>>

\* this.changePlan(userId, plan): its notification, heard or not; the card is
\* attached next when the subscription read first had none
CardChangePlanNotify(s, heard) ==
  /\ At(s, "card", "cpNotify")
  /\ req' = [req EXCEPT ![s] =
               [Called(@, IF heard THEN "auth.update" ELSE "auth.update.failed") EXCEPT
                  !.status = "active",
                  !.pc = IF req[s].flag THEN "attach" ELSE "notify"]]
  /\ UNCHANGED <<now, ticks, subs, stripe, payments, delivered>>

CardCustomer(s) ==
  /\ At(s, "card", "customer")
  /\ stripe.customers < MaxCustomers
  /\ stripe' = [stripe EXCEPT !.customers = @ + 1]
  /\ req' = [req EXCEPT ![s] = [Called(@, "stripe.createCustomer") EXCEPT
                                  !.cust = stripe.customers + 1, !.pc = "attachNew"]]
  /\ UNCHANGED <<now, ticks, subs, payments, delivered>>

CardAttach(s) ==
  /\ NoneDone /\ req[s].op = "card" /\ req[s].pc \in {"attachNew", "attach"}
  /\ stripe' = StripeAttachPaymentMethod(req[s].cust)
  /\ req' = [req EXCEPT ![s] = [Called(@, "stripe.attachPaymentMethod") EXCEPT
                                  !.pc = IF req[s].pc = "attachNew" THEN "defaultNew"
                                         ELSE "default"]]
  /\ UNCHANGED <<now, ticks, subs, payments, delivered>>

CardDefault(s) ==
  /\ NoneDone /\ req[s].op = "card" /\ req[s].pc \in {"defaultNew", "default"}
  /\ stripe' = StripeSetDefaultPaymentMethod(req[s].cust)
  /\ req' = [req EXCEPT ![s] = [Called(@, "stripe.updateCustomer") EXCEPT
                                  !.pc = IF req[s].pc = "defaultNew" THEN "persist"
                                         ELSE "validated"]]
  /\ UNCHANGED <<now, ticks, subs, payments, delivered>>

CardPersist(s) ==
  /\ At(s, "card", "persist")
  /\ LET r == req[s]
         dto == CardProjection(r.user, r.plan, r.cust, now)
     IN /\ subs' = createSubscription(subs, dto)
        /\ req' = [req EXCEPT ![s] = [Called(@, "db.createSubscription") EXCEPT
                     !.status = "trial", !.trialEnd = dto.trialEnd, !.pc = "notify"]]
  /\ UNCHANGED <<now, ticks, stripe, payments, delivered>>

\* updateSubscriptionByUserId(userId, {cardValidated: true})
CardValidated(s) ==
  /\ At(s, "card", "validated")
  /\ subs' = updateSubscriptionByUserId(subs, req[s].user, [cardValidated |-> TRUE])
  /\ req' = [req EXCEPT ![s] = [Called(@, "db.updateSubscription") EXCEPT !.pc = "notify"]]
  /\ UNCHANGED <<now, ticks, stripe, payments, delivered>>

----------------------------------------------------------------------------
(* SubscriptionService.isActive and getStatus, computed locally *)

Max(a, b) == IF a >= b THEN a ELSE b

\* Math.floor(a / b)
Floor(a, b) == a \div b

\* Math.ceil(a / b), b > 0
Ceil(a, b) == 0 - ((0 - a) \div b)

\* a trial that is still active at the instant it ends
isActiveAtBoundary(found, t) ==
  \E sub \in found :
    \/ sub.isTrialActive /\ sub.trialEnd # Absent /\ sub.trialEnd >= t
    \/ sub.status = "active" /\ sub.currentPeriodEnd # Absent /\ sub.currentPeriodEnd >= t

\* isActive, from the subscription it found and its new Date()
isActive(found, t) ==
  \E sub \in found :
    \/ sub.isTrialActive /\ sub.trialEnd # Absent /\ sub.trialEnd > t
    \/ sub.status = "active" /\ sub.currentPeriodEnd # Absent /\ sub.currentPeriodEnd > t

\* daysRemaining of getStatus
daysRemaining(sub, t) ==
  IF sub.isTrialActive /\ sub.trialEnd # Absent
  THEN Max(0, Ceil(sub.trialEnd - t, TicksPerDay))
  ELSE IF sub.currentPeriodEnd # Absent
  THEN Max(0, Ceil(sub.currentPeriodEnd - t, TicksPerDay))
  ELSE 0

\* what getStatus returns when the user has no subscription
NoSubscriptionStatus ==
  [hasSubscription |-> FALSE, isActive |-> FALSE, plan |-> "null", status |-> "null",
   trialActive |-> FALSE, daysRemaining |-> 0]

\* what getStatus returns for sub; active is the answer of its isActive call
StatusOf(sub, days, active) ==
  [hasSubscription |-> TRUE, isActive |-> active, plan |-> sub.plan,
   status |-> sub.status, trialActive |-> sub.isTrialActive, daysRemaining |-> days,
   nextBillingDate |-> sub.nextBillingDate, cancelAtPeriodEnd |-> sub.cancelAtPeriodEnd]

IsActiveQuery(s, u) ==
  /\ FreeSlot(s)
  /\ req' = [req EXCEPT ![s] =
               Finish([Arrived("isActive", u) EXCEPT
                         !.reply = {isActive(findSubscriptionByUserId(subs, u), now)}], "ok")]
  /\ UNCHANGED <<now, ticks, subs, stripe, payments, delivered>>

\* the lookup of getStatus and the days it computes from it
GetStatusFind(s, u) ==
  /\ FreeSlot(s)
  /\ LET found == findSubscriptionByUserId(subs, u)
         r == Arrived("getStatus", u)
     IN req' = [req EXCEPT ![s] =
                  IF found = {} THEN Finish([r EXCEPT !.reply = {NoSubscriptionStatus}], "ok")
                  ELSE [r EXCEPT !.pc = "active",
                                 !.reply = {StatusOf(sub, daysRemaining(sub, now), FALSE) :
                                              sub \in found}]]
  /\ UNCHANGED <<now, ticks, subs, stripe, payments, delivered>>

\* await this.isActive(userId): a lookup and an instant of its own
GetStatusActive(s) ==
  /\ At(s, "getStatus", "active")
  /\ LET active == isActive(findSubscriptionByUserId(subs, req[s].user), now)
     IN req' = [req EXCEPT ![s] =
                  Finish([Called(@, "db.find") EXCEPT
                            !.reply = {[st EXCEPT !.isActive = active] : st \in @}], "ok")]
  /\ UNCHANGED <<now, ticks, subs, stripe, payments, delivered>>

\* GET /subscriptions/user/:userId: the answer of the lookup, or null, is the body
FindByUserId(s, u) ==
  /\ FreeSlot(s)
  /\ req' = [req EXCEPT ![s] =
               Finish([Arrived("findByUserId", u) EXCEPT
                         !.reply = findSubscriptionByUserId(subs, u)], "ok")]
  /\ UNCHANGED <<now, ticks, subs, stripe, payments, delivered>>

\* the routes of the health check and the handlers that serve them
HealthRoutes == {"getHealth", "getHealthAlternative"}

\* a health check that reports the service as down
getHealthDown(t) ==
  [status |-> "DOWN", service |-> "Penpal AI Payment Service", version |-> "1.0.0",
   timestamp |-> t]

\* AppService.getHealth; t is new Date()
getHealth(t) ==
  [status |-> "OK", service |-> "Penpal AI Payment Service", version |-> "1.0.0",
   timestamp |-> t]

\* GET / and GET /health
GetHealth(s, route) ==
  /\ FreeSlot(s)
  /\ req' = [req EXCEPT ![s] =
               Finish([Idle EXCEPT !.op = route, !.reply = {getHealth(now)}], "ok")]
  /\ UNCHANGED <<now, ticks, subs, stripe, payments, delivered>>

----------------------------------------------------------------------------
(* WebhookController.handleStripeWebhook and WebhookService.processWebhook  *)

\* the processor's timestamps count seconds, the service's dates clock ticks
SecondsPerTick == 86400 \div TicksPerDay

\* the processor's timestamp of instant t
EpochSeconds(t) == t * SecondsPerTick

\* new Date(seconds * 1000), read on the service's clock
DateOfSeconds(seconds) == seconds \div SecondsPerTick

mapStripeStatus(stripeStatus) ==
  IF stripeStatus = "trialing" THEN "trial"
  ELSE IF stripeStatus = "active" THEN "active"
  ELSE IF stripeStatus = "past_due" THEN "past_due"
  ELSE IF stripeStatus \in {"canceled", "cancelled"} THEN "canceled"
  ELSE IF stripeStatus = "unpaid" THEN "unpaid"
  ELSE "unpaid"

\* the mapping of the webhook service that writes the store itself
mapStripeStatusDirect(stripeStatus) ==
  IF stripeStatus = "active" THEN "active"
  ELSE IF stripeStatus = "past_due" THEN "past_due"
  ELSE IF stripeStatus = "canceled" THEN "canceled"
  ELSE IF stripeStatus = "unpaid" THEN "unpaid"
  ELSE IF stripeStatus = "trialing" THEN "trial"
  ELSE "active"

IndexesOfStripeSubscription(store, id) ==
  {i \in 1 .. Len(store) : store[i].stripeSubscriptionId = id}

\* a lookup that answers with the first subscription whatever the id
findSubscriptionIgnoringId(store, id) ==
  IF store = <<>> THEN {}
  ELSE {[id |-> 1, userId |-> store[1].userId, status |-> store[1].status]}

\* GET /subscriptions/stripe-subscription/:id, 404 read as null; the record
\* found carries the id the store gave it
findSubscriptionByStripeSubscriptionId(store, id) ==
  IF IndexesOfStripeSubscription(store, id) = {} THEN {}
  ELSE LET i == FirstOf(IndexesOfStripeSubscription(store, id))
       IN {[id |-> i, userId |-> store[i].userId, status |-> store[i].status]}

\* PUT /subscriptions/stripe-subscription/:id
updateSubscriptionByStripeSubscriptionId(store, id, dto) ==
  [store EXCEPT ![FirstOf(IndexesOfStripeSubscription(store, id))] = Merge(@, dto)]

\* fields the record store fills in when the payment request leaves them out
PaymentDefaults == [paidAt |-> Absent, failureReason |-> "none"]

\* POST /payments
createPayment(store, dto) ==
  Append(store, [f \in DOMAIN dto \cup DOMAIN PaymentDefaults |->
                   IF f \in DOMAIN dto THEN dto[f] ELSE PaymentDefaults[f]])

IndexesOfPaymentIntent(store, id) ==
  {i \in 1 .. Len(store) : store[i].stripePaymentIntentId = id}

\* GET /payments/stripe-payment-intent/:id, 404 read as null
findPaymentByStripePaymentIntentId(store, id) ==
  IF IndexesOfPaymentIntent(store, id) = {} THEN {}
  ELSE {store[FirstOf(IndexesOfPaymentIntent(store, id))]}

\* PUT /payments/stripe-payment-intent/:id
updatePaymentByStripePaymentIntentId(store, id, dto) ==
  [store EXCEPT ![FirstOf(IndexesOfPaymentIntent(store, id))] = Merge(@, dto)]

Signatures == {"valid", "invalid", "missing"}

\* a verification that lets every signed payload through
constructAnyWebhookEvent(signature) == TRUE

\* stripe.webhooks.constructEvent: whether the payload's signature verifies
constructWebhookEvent(signature) == signature = "valid"

SubscriptionEvents ==
  {"customer.subscription.created", "customer.subscription.updated",
   "customer.subscription.deleted"}

InvoiceEvents == {"invoice.payment_succeeded", "invoice.payment_failed"}

PaymentIntentEvents == {"payment_intent.succeeded", "payment_intent.payment_failed"}

\* handlers whose deletion also clears the cancelAtPeriodEnd flag
SubscriptionUpdateClearing(event, t) ==
  IF event.type = "customer.subscription.created"
  THEN [stripeSubscriptionId |-> event.subscription,
        status |-> mapStripeStatus(event.status),
        currentPeriodStart |-> DateOfSeconds(event.current_period_start),
        currentPeriodEnd |-> DateOfSeconds(event.current_period_end)]
  ELSE IF event.type = "customer.subscription.updated"
  THEN LET updateData ==
             [status |-> mapStripeStatus(event.status),
              currentPeriodStart |-> DateOfSeconds(event.current_period_start),
              currentPeriodEnd |-> DateOfSeconds(event.current_period_end),
              cancelAtPeriodEnd |-> event.cancel_at_period_end]
       IN IF event.canceled_at # Absent
          THEN [f \in DOMAIN updateData \cup {"canceledAt"} |->
                  IF f = "canceledAt" THEN DateOfSeconds(event.canceled_at)
                  ELSE updateData[f]]
          ELSE updateData
  ELSE [status |-> "canceled", canceledAt |-> t, cancelAtPeriodEnd |-> FALSE]

\* what handleSubscriptionCreated / Updated / Deleted write; t is new Date()
SubscriptionUpdateOf(event, t) ==
  IF event.type = "customer.subscription.created"
  THEN [stripeSubscriptionId |-> event.subscription,
        status |-> mapStripeStatus(event.status),
        currentPeriodStart |-> DateOfSeconds(event.current_period_start),
        currentPeriodEnd |-> DateOfSeconds(event.current_period_end)]
  ELSE IF event.type = "customer.subscription.updated"
  THEN LET updateData ==
             [status |-> mapStripeStatus(event.status),
              currentPeriodStart |-> DateOfSeconds(event.current_period_start),
              currentPeriodEnd |-> DateOfSeconds(event.current_period_end),
              cancelAtPeriodEnd |-> event.cancel_at_period_end]
       IN IF event.canceled_at # Absent
          THEN [f \in DOMAIN updateData \cup {"canceledAt"} |->
                  IF f = "canceledAt" THEN DateOfSeconds(event.canceled_at)
                  ELSE updateData[f]]
          ELSE updateData
  ELSE [status |-> "canceled", canceledAt |-> t]

\* paymentData of handlePaymentSucceeded / handlePaymentFailed; t is new Date()
PaymentOf(event, found, t) ==
  IF event.type = "invoice.payment_succeeded"
  THEN [userId |-> found.userId, subscriptionId |-> found.id,
        stripePaymentIntentId |-> event.payment_intent, status |-> "succeeded",
        amount |-> event.amount_paid, paidAt |-> t]
  ELSE [userId |-> found.userId, subscriptionId |-> found.id,
        stripePaymentIntentId |-> event.payment_intent, status |-> "failed",
        amount |-> event.amount_due, failureReason |-> "Payment failed via webhook"]

\* a handler that rewrites the subscription after every payment
InvoiceWritesAlways(event, status) == TRUE

\* whether the invoice handler writes the subscription it found with status
InvoiceWrites(event, status) ==
  event.type = "invoice.payment_failed" \/ status # "active"

\* a failed payment that makes the subscription unpaid
InvoiceUpdateUnpaid(event) ==
  IF event.type = "invoice.payment_succeeded"
  THEN [status |-> "active", isTrialActive |-> FALSE]
  ELSE [status |-> "unpaid"]

\* what handlePaymentSucceeded / handlePaymentFailed write to the subscription
InvoiceUpdateOf(event) ==
  IF event.type = "invoice.payment_succeeded"
  THEN [status |-> "active", isTrialActive |-> FALSE]
  ELSE [status |-> "past_due"]

\* handlers that write the status of the payment and nothing else
PaymentUpdateStatusOnly(event, t) ==
  IF event.type = "payment_intent.succeeded"
  THEN [status |-> "succeeded"]
  ELSE [status |-> "failed"]

\* what handlePaymentIntentSucceeded / Failed write to the payment; t is new Date()
PaymentUpdateOf(event, t) ==
  IF event.type = "payment_intent.succeeded"
  THEN [status |-> "succeeded", paidAt |-> t]
  ELSE [status |-> "failed", failureReason |-> "Payment failed"]

\* an invoice handler that looks the subscription up whatever the invoice holds
InvoiceAlwaysComplete(event) == TRUE

\* the invoice names a subscription and a payment intent
InvoiceComplete(event) == event.subscription # Absent /\ event.payment_intent # Absent

\* the first call the handler of event issues: "none" when it returns before
WebhookFirstCall(event) ==
  IF event.type \in SubscriptionEvents THEN "db.findSubscription"
  ELSE IF event.type \in InvoiceEvents
  THEN IF InvoiceComplete(event) THEN "db.findSubscription" ELSE "none"
  ELSE IF event.type \in PaymentIntentEvents THEN "db.findPayment"
  ELSE "none"

\* POST /webhooks/stripe up to the answer of the handler's lookup
WebhookArrives(s, signature, event) ==
  /\ FreeSlot(s)
  /\ delivered < MaxEvents
  /\ delivered' = delivered + 1
  /\ LET r == [Idle EXCEPT !.op = "webhook", !.signature = signature, !.event = event,
                           !.at = now]
         call == WebhookFirstCall(event)
         foundSub == findSubscriptionByStripeSubscriptionId(subs, event.subscription)
         foundPay == findPaymentByStripePaymentIntentId(payments, event.payment_intent)
     IN req' = [req EXCEPT ![s] =
                  IF signature = "missing" \/ ~ constructWebhookEvent(signature)
                  THEN Finish([r EXCEPT !.event = NoEvent, !.at = Absent], "Error")
                  ELSE IF call = "none" THEN Finish(r, "ok")
                  ELSE IF call = "db.findSubscription"
                  THEN IF foundSub = {} THEN Finish(Called(r, call), "ok")
                       ELSE CHOOSE q \in {[Called(r, call) EXCEPT
                                             !.user = sub.userId, !.subscriptionId = sub.id,
                                             !.status = sub.status,
                                             !.pc = IF event.type \in InvoiceEvents
                                                    THEN "whPay" ELSE "whUpdate"] :
                                          sub \in foundSub} : TRUE
                  ELSE IF foundPay = {} THEN Finish(Called(r, call), "ok")
                       ELSE [Called(r, call) EXCEPT !.pc = "whPayUpdate"]]
  /\ UNCHANGED <<now, ticks, subs, stripe, payments>>

\* the handler's lookup fails
WebhookFindFails(s, event) ==
  /\ FreeSlot(s)
  /\ WebhookFirstCall(event) # "none"
  /\ delivered < MaxEvents
  /\ delivered' = delivered + 1
  /\ req' = [req EXCEPT ![s] =
               Fail([Idle EXCEPT !.op = "webhook", !.signature = "valid",
                                 !.event = event, !.at = now], "db.find.failed")]
  /\ UNCHANGED <<now, ticks, subs, stripe, payments>>

\* dbServiceClient.createPayment(paymentData)
WebhookPayment(s) ==
  /\ At(s, "webhook", "whPay")
  /\ Len(payments) < MaxPayments
  /\ payments' = createPayment(payments,
                   PaymentOf(req[s].event,
                             [id |-> req[s].subscriptionId, userId |-> req[s].user], req[s].at))
  /\ req' = [req EXCEPT ![s] =
               IF InvoiceWrites(req[s].event, req[s].status)
               THEN [Called(@, "db.createPayment") EXCEPT !.pc = "whUpdate"]
               ELSE Finish(Called(@, "db.createPayment"), "ok")]
  /\ UNCHANGED <<now, ticks, subs, stripe, delivered>>

\* dbServiceClient.updateSubscriptionByStripeSubscriptionId(id, ...): the store
\* answers 404 when the id is no longer there
WebhookUpdate(s) ==
  /\ At(s, "webhook", "whUpdate")
  /\ LET event == req[s].event
         dto == IF event.type \in InvoiceEvents THEN InvoiceUpdateOf(event)
                ELSE SubscriptionUpdateOf(event, req[s].at)
     IN IF IndexesOfStripeSubscription(subs, event.subscription) = {}
        THEN /\ req' = [req EXCEPT ![s] = Fail(@, "db.updateSubscription.failed")]
             /\ subs' = subs
        ELSE /\ subs' = updateSubscriptionByStripeSubscriptionId(subs, event.subscription, dto)
             /\ req' = [req EXCEPT ![s] = Finish(Called(@, "db.updateSubscription"), "ok")]
  /\ UNCHANGED <<now, ticks, stripe, payments, delivered>>

\* dbServiceClient.updatePaymentByStripePaymentIntentId(id, ...)
WebhookPaymentUpdate(s) ==
  /\ At(s, "webhook", "whPayUpdate")
  /\ payments' = updatePaymentByStripePaymentIntentId(payments,
                   req[s].event.payment_intent, PaymentUpdateOf(req[s].event, req[s].at))
  /\ req' = [req EXCEPT ![s] = Finish(Called(@, "db.updatePayment"), "ok")]
  /\ UNCHANGED <<now, ticks, subs, stripe, delivered>>

----------------------------------------------------------------------------
(* AuthServiceClient.updateUserSubscription({plan, status, trialEnd}):      *)
(* a failure is logged, never thrown                                        *)

Notify(s) ==
  /\ NoneDone /\ req[s].pc = "notify"
  /\ req' = [req EXCEPT ![s] = Finish(Called(@, "auth.update"), "ok")]
  /\ UNCHANGED <<now, ticks, subs, stripe, payments, delivered>>

\* a notifier whose failure is thrown to the operation
NotifyThrows(s) ==
  /\ NoneDone /\ req[s].pc = "notify"
  /\ req' = [req EXCEPT ![s] = Finish(Called(@, "auth.update.failed"), "Upstream")]
  /\ UNCHANGED <<now, ticks, subs, stripe, payments, delivered>>

NotifyFails(s) ==
  /\ NoneDone /\ req[s].pc = "notify"
  /\ req' = [req EXCEPT ![s] = Finish(Called(@, "auth.update.failed"), "ok")]
  /\ UNCHANGED <<now, ticks, subs, stripe, payments, delivered>>

----------------------------------------------------------------------------
(* Technical failures (network, 5xx) of the awaited calls *)

\* the call a request in flight is waiting for
PendingCall(r) ==
  IF r.pc = "customer" THEN "stripe.createCustomer.failed"
  ELSE IF r.pc = "stripeSub" THEN "stripe.createSubscription.failed"
  ELSE IF r.pc = "stripeCancel" THEN "stripe.cancelSubscription.failed"
  ELSE IF r.pc \in {"attachNew", "attach"} THEN "stripe.attachPaymentMethod.failed"
  ELSE IF r.pc \in {"defaultNew", "default"} THEN "stripe.updateCustomer.failed"
  ELSE IF r.pc \in {"persist", "cpPersist", "validated"} THEN "db.write.failed"
  ELSE IF r.pc \in {"create", "cpFind"} THEN "db.find.failed"
  ELSE IF r.pc = "whPay" THEN "db.createPayment.failed"
  ELSE IF r.pc = "whUpdate" THEN "db.updateSubscription.failed"
  ELSE IF r.pc = "whPayUpdate" THEN "db.updatePayment.failed"
  ELSE "none"

CallFails(s) ==
  /\ NoneDone /\ PendingCall(req[s]) # "none"
  /\ req' = [req EXCEPT ![s] = Fail(@, PendingCall(req[s]))]
  /\ UNCHANGED <<now, ticks, subs, stripe, payments, delivered>>

\* the lookup that opens a request fails
FindFails(s, op, u) ==
  /\ FreeSlot(s)
  /\ req' = [req EXCEPT ![s] = Fail([Idle EXCEPT !.op = op, !.user = u], "db.find.failed")]
  /\ UNCHANGED <<now, ticks, subs, stripe, payments, delivered>>

----------------------------------------------------------------------------
(* The caller picks up the response; the clock advances *)

Release(s) ==
  /\ req[s].pc = "done"
  /\ req' = [req EXCEPT ![s] = Idle]
  /\ UNCHANGED <<now, ticks, subs, stripe, payments, delivered>>

\* the processor with n customers, no subscription, no payment method attached
\* and no event acknowledged
Processor(n) ==
  [customers |-> n, subs |-> <<>>, attached |-> {}, defaults |-> {}, acknowledged |-> {}]

\* 2024-01-15T12:00
StartInstant == 14 * TicksPerDay + 1

\* the clock advances to 2024-01-31T12:00
TickSteps == {16 * TicksPerDay}

Tick(d) ==
  /\ NoneDone
  /\ ticks < MaxTicks
  /\ now' = now + d
  /\ ticks' = ticks + 1
  /\ UNCHANGED <<subs, stripe, req, payments, delivered>>

----------------------------------------------------------------------------

\* the store is remote and outlives the service: at start it is empty, or holds
\* the trial that create wrote for another user
Bystander == TrialProjection("u2", "yearly", 1, StartInstant)

Init ==
  /\ now = StartInstant
  /\ ticks = 0
  /\ \/ subs = <<>> /\ stripe = Processor(0)
     \/ subs = createSubscription(<<>>, Bystander) /\ stripe = Processor(1)
  /\ req = [s \in Slots |-> Idle]
  /\ payments = <<>>
  /\ delivered = 0

\* requests are served one after the other, in the first slot
Next ==
  \/ \E u \in Callers, p \in Plans : CreateFind(1, u, p)
  \/ CreateCustomer(1)
  \/ CreatePersist(1)
  \/ \E u \in Callers : StartPaidFind(1, u)
  \/ StartPaidStripe(1)
  \/ StartPaidPersist(1)
  \/ \E u \in Callers, b \in CancelBodies : CancelFind(1, u, b)
  \/ CancelStripe(1)
  \/ CancelPersist(1)
  \/ \E u \in Callers, p \in Plans : ChangePlanFind(1, u, p)
  \/ ChangePlanPersist(1)
  \/ Notify(1)
  \/ NotifyFails(1)
  \/ CallFails(1)
  \/ \E u \in Callers, op \in Operations : FindFails(1, op, u)
  \/ Release(1)
  \/ \E d \in TickSteps : Tick(d)

Spec == Init /\ [][Next]_vars

\* create and startPaidSubscription requests overlap: their steps interleave
RaceNext ==
  \/ \E s \in Slots, u \in Callers, p \in Plans : CreateFind(s, u, p)
  \/ \E s \in Slots : CreateCustomer(s)
  \/ \E s \in Slots : CreatePersist(s)
  \/ \E s \in Slots, u \in Callers : StartPaidFind(s, u)
  \/ \E s \in Slots : StartPaidStripe(s)
  \/ \E s \in Slots : StartPaidPersist(s)
  \/ \E s \in Slots : Notify(s)
  \/ \E s \in Slots : Release(s)
  \/ \E d \in TickSteps : Tick(d)

RaceSpec == Init /\ [][RaceNext]_vars

\* subscriptions created with or without a card and made paid, one request after
\* the other
CardNext ==
  \/ \E u \in Callers, p \in Plans : CreateFind(1, u, p)
  \/ CreateCustomer(1)
  \/ CreatePersist(1)
  \/ \E u \in Callers : StartPaidFind(1, u)
  \/ StartPaidStripe(1)
  \/ StartPaidPersist(1)
  \/ \E u \in Callers, p \in Plans : CardFind(1, u, p)
  \/ CardCreate(1)
  \/ CardChangePlanFind(1)
  \/ CardChangePlanPersist(1)
  \/ \E heard \in BOOLEAN : CardChangePlanNotify(1, heard)
  \/ CardCustomer(1)
  \/ CardAttach(1)
  \/ CardDefault(1)
  \/ CardPersist(1)
  \/ CardValidated(1)
  \/ Notify(1)
  \/ CallFails(1)
  \/ Release(1)
  \/ \E d \in TickSteps : Tick(d)

CardSpec == Init /\ [][CardNext]_vars

\* the statuses the processor gives a subscription; "incomplete" is one of
\* those the service has no name for
StripeStatuses == {"trialing", "active", "past_due", "canceled", "unpaid", "incomplete"}

\* the instant the processor bills at: the one the clock advances to
BillingInstant == StartInstant + 16 * TicksPerDay

\* the events the processor sends about its subscriptions, known to the store or not
SubscriptionEventsSent ==
  {[NoEvent EXCEPT !.type = "customer.subscription.created", !.subscription = id,
                   !.status = st,
                   !.current_period_start = EpochSeconds(BillingInstant),
                   !.current_period_end = EpochSeconds(BillingInstant + 30 * TicksPerDay),
                   !.cancel_at_period_end = cap] :
     id \in 1 .. MaxStripeSubs, st \in {"trialing", "active"}, cap \in BOOLEAN}
  \cup
  {[NoEvent EXCEPT !.type = "customer.subscription.updated", !.subscription = id,
                   !.status = st,
                   !.current_period_start = EpochSeconds(BillingInstant),
                   !.current_period_end = EpochSeconds(BillingInstant + 30 * TicksPerDay),
                   !.cancel_at_period_end = cap, !.canceled_at = at] :
     id \in 1 .. MaxStripeSubs, st \in StripeStatuses, cap \in BOOLEAN,
     at \in {Absent, EpochSeconds(BillingInstant)}}
  \cup
  {[NoEvent EXCEPT !.type = "customer.subscription.deleted", !.subscription = id,
                   !.status = "canceled"] : id \in 1 .. MaxStripeSubs}

\* the invoice events: with or without their references, the amount paid
\* differing from the amount due
InvoiceEventsSent ==
  {[NoEvent EXCEPT !.type = ty, !.subscription = id, !.payment_intent = pi,
                   !.amount_due = 20, !.amount_paid = 15] :
     ty \in InvoiceEvents, id \in {Absent} \cup 1 .. MaxStripeSubs, pi \in {Absent, 1}}

PaymentIntentEventsSent ==
  {[NoEvent EXCEPT !.type = ty, !.payment_intent = pi] :
     ty \in PaymentIntentEvents, pi \in 1 .. MaxIntents}

\* an event the service has no handler for
OtherEventsSent == {[NoEvent EXCEPT !.type = "customer.created"]}

EventsSent ==
  SubscriptionEventsSent \cup InvoiceEventsSent \cup PaymentIntentEventsSent
    \cup OtherEventsSent

\* the store as the lifecycle has left it when the processor's events arrive:
\* empty, or with another user's trial alone, beside a trial of u1, or beside the
\* subscription u1 has made paid
WebhookInit ==
  /\ now = StartInstant
  /\ ticks = 0
  /\ req = [s \in Slots |-> Idle]
  /\ payments = <<>>
  /\ delivered = 0
  /\ LET other == NewSubscription(Bystander)
         trial == NewSubscription(TrialProjection("u1", "monthly", 2, StartInstant))
     IN \/ subs = <<>> /\ stripe = Processor(0)
        \/ subs = <<other>> /\ stripe = Processor(1)
        \/ subs = <<other, trial>> /\ stripe = Processor(2)
        \/ /\ subs = <<other, Merge(trial, StartPaidUpdate("monthly", 1, StartInstant))>>
           /\ stripe = [Processor(2) EXCEPT !.subs =
                          <<[customer |-> 2, price |-> getPriceId("monthly"),
                             trialDays |-> 0, cancelAtPeriodEnd |-> FALSE]>>]

\* the processor's events are handled one after the other
WebhookNext ==
  \/ \E sig \in Signatures, event \in EventsSent : WebhookArrives(1, sig, event)
  \/ \E event \in EventsSent : WebhookFindFails(1, event)
  \/ WebhookPayment(1)
  \/ WebhookUpdate(1)
  \/ WebhookPaymentUpdate(1)
  \/ CallFails(1)
  \/ Release(1)
  \/ \E d \in TickSteps : Tick(d)

WebhookSpec == WebhookInit /\ [][WebhookNext]_vars

\* ---- a subscription made paid while the processor bills it ----

\* the invoice event the processor emits for its subscription id: the payment
\* intent of the first invoice carries the same number
InvoiceEventOf(type, id) ==
  [NoEvent EXCEPT !.type = type, !.subscription = id, !.payment_intent = id,
                  !.amount_due = 20, !.amount_paid = 15]

\* the processor delivers the invoice event of one of its subscriptions, unless
\* a delivery of it is under way or was answered with success
DeliverInvoice(s, type) ==
  \E id \in 1 .. Len(stripe.subs) :
    /\ id \notin stripe.acknowledged
    /\ \A q \in Slots : ~ (req[q].op = "webhook" /\ req[q].event.subscription = id)
    /\ WebhookArrives(s, "valid", InvoiceEventOf(type, id))

\* the processor receives the answer to a delivery: {received: true} ends the
\* deliveries of the event, an error leaves it to be delivered again
Acknowledge(s) ==
  /\ req[s].op = "webhook" /\ req[s].pc = "done"
  /\ stripe' = IF req[s].result = "ok"
               THEN [stripe EXCEPT !.acknowledged = @ \cup {req[s].event.subscription}]
               ELSE stripe
  /\ req' = [req EXCEPT ![s] = Idle]
  /\ UNCHANGED <<now, ticks, subs, payments, delivered>>

\* the store holds the trial of u1, whose customer the processor knows
ActivationInit ==
  /\ now = StartInstant
  /\ ticks = 0
  /\ \E plan \in Plans :
       subs = createSubscription(<<>>, TrialProjection("u1", plan, 1, StartInstant))
  /\ stripe = Processor(1)
  /\ req = [s \in Slots |-> Idle]
  /\ payments = <<>>
  /\ delivered = 0

\* startPaidSubscription and the handling of the processor's invoice events
\* interleave
ActivationNext ==
  \/ \E s \in Slots, u \in Callers : StartPaidFind(s, u)
  \/ \E s \in Slots : StartPaidStripe(s)
  \/ \E s \in Slots : StartPaidPersist(s)
  \/ \E s \in Slots : Notify(s)
  \/ \E s \in Slots : CallFails(s)
  \/ \E s \in Slots, type \in InvoiceEvents : DeliverInvoice(s, type)
  \/ \E s \in Slots : WebhookPayment(s)
  \/ \E s \in Slots : WebhookUpdate(s)
  \/ \E s \in Slots : Acknowledge(s)
  \/ \E s \in Slots : req[s].op # "webhook" /\ Release(s)

\* every request and every delivery is served to its end
ActivationSpec == ActivationInit /\ [][ActivationNext]_vars /\ WF_vars(ActivationNext)

\* ---- the status mapping on its own ----

\* the status strings of the processor's subscriptions, and the British
\* spelling that the mapping provides for
ProcessorStatuses ==
  StripeStatuses \cup {"incomplete_expired", "paused", "cancelled"}

\* every slot holds a subscription event whose status is still to be mapped
MapInit ==
  /\ now = StartInstant /\ ticks = 0
  /\ subs = <<>> /\ payments = <<>> /\ delivered = 0
  /\ stripe = Processor(0)
  /\ req \in [1 .. MaxSlots ->
               {[Idle EXCEPT !.op = "mapStripeStatus", !.pc = "map",
                             !.event = [NoEvent EXCEPT !.type = "customer.subscription.updated",
                                                       !.status = st]] :
                  st \in ProcessorStatuses}]

MapStatus(s) ==
  /\ req[s].pc = "map"
  /\ req' = [req EXCEPT ![s] = [@ EXCEPT !.pc = "done",
                                         !.status = mapStripeStatus(req[s].event.status)]]
  /\ UNCHANGED <<now, ticks, subs, stripe, payments, delivered>>

MapStatusDirect(s) ==
  /\ req[s].pc = "map"
  /\ req' = [req EXCEPT ![s] = [@ EXCEPT !.op = "mapStripeStatusDirect", !.pc = "done",
                                         !.status = mapStripeStatusDirect(req[s].event.status)]]
  /\ UNCHANGED <<now, ticks, subs, stripe, payments, delivered>>

MapNext ==
  \/ \E s \in 1 .. MaxSlots : MapStatus(s)
  \/ \E s \in 1 .. MaxSlots : MapStatusDirect(s)

MapSpec == MapInit /\ [][MapNext]_vars

\* subscriptions as the lifecycle leaves them: a trial of user u started at t0,
\* made paid at t1, canceled at t1, or with the status a processor event gave it
StoredSubscriptions(u, t0, t1) ==
  LET trials == {NewSubscription(TrialProjection(u, p, 1, t0)) : p \in Plans}
      paid == {Merge(sub, StartPaidUpdate(sub.plan, 1, t1)) : sub \in trials}
      ended == {Merge(sub, CancelUpdate(FALSE, t1)) : sub \in trials \cup paid}
  IN {Merge(sub, [status |-> st]) : sub \in trials \cup paid \cup ended, st \in Statuses}

\* the instants around the boundaries of sub, and its start
InstantsAround(sub) ==
  {sub.trialStart} \cup
  {b + d : b \in {sub.trialEnd, sub.currentPeriodEnd}, d \in {0 - TicksPerDay - 1, 0 - 1, 0, 1}}

\* the service answers queries about a store it did not fill in this run
QueryInit ==
  /\ ticks = 0
  /\ stripe = Processor(1)
  /\ req = [s \in Slots |-> Idle]
  /\ payments = <<>>
  /\ delivered = 0
  /\ \/ subs = <<>> /\ now = StartInstant
     \/ \E sub \in StoredSubscriptions("u1", StartInstant, StartInstant + 16 * TicksPerDay) :
          subs = <<sub>> /\ now \in InstantsAround(sub)

QueryNext ==
  \/ \E u \in Callers : IsActiveQuery(1, u)
  \/ \E u \in Callers : GetStatusFind(1, u)
  \/ GetStatusActive(1)
  \/ \E u \in Callers : FindByUserId(1, u)
  \/ \E route \in HealthRoutes : GetHealth(1, route)
  \/ Release(1)
  \/ \E d \in TickSteps : Tick(d)

QuerySpec == QueryInit /\ [][QueryNext]_vars

----------------------------------------------------------------------------
(* Properties *)

SubscriptionsOf(u) == Cardinality(IndexesOfUser(subs, u))

\* request s of kind op arrives and its lookup is answered
Looked(s, op) == req[s].pc = "idle" /\ req'[s].op = op /\ req'[s].calls = <<"db.find">>

\* request s of kind op moves from step a to step b
Step(s, op, a, b) == req[s].op = op /\ req[s].pc = a /\ req'[s].pc = b

\* request s ends at its lookup with result, having touched nothing
Refused(s, result) ==
  /\ req'[s].pc = "done" /\ req'[s].result = result /\ req'[s].calls = <<"db.find">>
  /\ subs' = subs /\ stripe' = stripe

\* C1: requests served one after the other: a create for a user who already has
\* a subscription ends with BadRequest after its lookup alone (no processor
\* customer, nothing persisted), and the user has exactly one subscription after it
C1_SecondCreateRejected ==
  [][\A u \in Callers, p \in Plans :
       CreateFind(1, u, p) /\ SubscriptionsOf(u) >= 1
         => /\ req'[1].pc = "done" /\ req'[1].result = "BadRequest"
            /\ req'[1].calls = <<"db.find">>
            /\ stripe' = stripe /\ subs' = subs
            /\ SubscriptionsOf(u)' = 1]_vars

C1_Witness ==
  /\ req[1].op = "create" /\ req[1].result = "BadRequest"
  /\ SubscriptionsOf(req[1].user) = 1
  /\ stripe.customers = SubscriptionsOf("u1") + SubscriptionsOf("u2")

\* C2: in every reachable state, also when create requests for one user overlap,
\* the store holds at most one subscription per user id
C2_AtMostOnePerUser == \A u \in Users : SubscriptionsOf(u) <= 1

\* C3: the write of a create stores, for either plan, a subscription with status
\* trial, isTrialActive, trialStart = now, trialEnd = now + 30 days, the current
\* period [trialStart, trialEnd], nextBillingDate = trialEnd and no processor
\* subscription id; nothing can fail the request after it
C3_CreatePersistsTrial ==
  [][Step(1, "create", "persist", "notify")
       => /\ SubscriptionsOf(req[1].user)' = 1
          /\ \A sub \in findSubscriptionByUserId(subs', req[1].user) :
               /\ sub.plan = req[1].plan
               /\ sub.status = "trial" /\ sub.isTrialActive
               /\ sub.trialStart = now /\ sub.trialEnd = now + 30 * TicksPerDay
               /\ sub.currentPeriodStart = sub.trialStart
               /\ sub.currentPeriodEnd = sub.trialEnd
               /\ sub.nextBillingDate = sub.trialEnd
               /\ sub.stripeSubscriptionId = Absent
          /\ PendingCall(req'[1]) = "none"]_vars

C3_Witness ==
  /\ req[1].op = "create" /\ req[1].result = "ok" /\ req[1].plan = "yearly"
  /\ \E sub \in findSubscriptionByUserId(subs, req[1].user) :
       /\ sub.plan = "yearly" /\ sub.status = "trial"
       /\ sub.trialStart > StartInstant
       /\ sub.trialEnd = sub.trialStart + 30 * TicksPerDay

Min(a, b) == IF a <= b THEN a ELSE b

\* the same date and time one calendar month later, the last day of that month
\* when it has no such date
OneCalendarMonthAfter(t) ==
  LET y == getFullYear(t) + (getMonth(t) + 1) \div 12
      m == (getMonth(t) + 1) % 12
  IN MakeDate(y, m, Min(getDate(t), DaysInMonth(y, m)), t)

\* the same date and time one calendar year later (28 February after a 29 February)
OneCalendarYearAfter(t) ==
  LET y == getFullYear(t) + 1
  IN MakeDate(y, getMonth(t), Min(getDate(t), DaysInMonth(y, getMonth(t))), t)

\* C5: the write of a startPaidSubscription stores the id of the one processor
\* subscription the request created (with 0 trial days), status active,
\* isTrialActive false, currentPeriodStart = now, currentPeriodEnd = now plus one
\* calendar month (monthly) or one calendar year (yearly), and
\* nextBillingDate = currentPeriodEnd
C5_StartPaidPersistsPeriod ==
  [][Step(1, "startPaid", "persist", "notify")
       => /\ req[1].calls = <<"db.find", "stripe.createSubscription">>
          /\ stripe.subs[req[1].ssub].trialDays = 0
          /\ \A sub \in findSubscriptionByUserId(subs', req[1].user) :
               /\ sub.stripeSubscriptionId = req[1].ssub
               /\ sub.status = "active" /\ ~ sub.isTrialActive
               /\ sub.currentPeriodStart = now
               /\ sub.currentPeriodEnd =
                    (IF sub.plan = "monthly" THEN OneCalendarMonthAfter(now)
                     ELSE OneCalendarYearAfter(now))
               /\ sub.nextBillingDate = sub.currentPeriodEnd]_vars

\* C6: changePlan ends with NotFound when the user has no subscription and with
\* BadRequest when the new plan is the stored plan, in both cases after its
\* lookup alone: no write, no notification
C6_ChangePlanRefused ==
  [][Looked(1, "changePlan")
       => LET found == findSubscriptionByUserId(subs, req'[1].user)
          IN /\ found = {} => Refused(1, "NotFound")
             /\ \A sub \in found : sub.plan = req'[1].plan => Refused(1, "BadRequest")]_vars

\* the store new differs from old in the fields of u's subscription named in F
\* at most
OnlyChanged(old, new, u, F) ==
  /\ Len(new) = Len(old)
  /\ \A i \in 1 .. Len(old) :
       IF i \in IndexesOfUser(old, u)
       THEN \A f \in DOMAIN old[i] \ F : new[i][f] = old[i][f]
       ELSE new[i] = old[i]

\* C7: the write of a changePlan changes the stored plan of the user's
\* subscription to the new plan and nothing else: every other field and every
\* other user's subscription stay as they were, and the request calls the
\* processor at no point
C7_ChangePlanOnlyPlan ==
  [][Step(1, "changePlan", "persist", "notify")
       => /\ OnlyChanged(subs, subs', req[1].user, {"plan"})
          /\ \A sub \in findSubscriptionByUserId(subs', req[1].user) : sub.plan = req[1].plan
          /\ stripe' = stripe
          /\ req'[1].calls = <<"db.find", "db.changeSubscriptionPlan">>]_vars

C7_Witness ==
  /\ req[1].op = "changePlan" /\ req[1].result = "ok" /\ req[1].plan = "yearly"
  /\ SubscriptionsOf("u2") = 1
  /\ \E sub \in findSubscriptionByUserId(subs, req[1].user) :
       sub.plan = "yearly" /\ sub.status = "active"

C9_CancelAtPeriodEndPersists ==
  [][/\ \A u \in Callers, b \in {"true", "omitted"} : CancelFind(1, u, b) => req'[1].flag
     /\ Step(1, "cancel", "persist", "notify") /\ req[1].flag
          => /\ OnlyChanged(subs, subs', req[1].user, {"cancelAtPeriodEnd"})
             /\ \A sub \in findSubscriptionByUserId(subs', req[1].user) :
                  sub.cancelAtPeriodEnd]_vars

C9_Witness ==
  /\ req[1].op = "cancel" /\ req[1].result = "ok" /\ req[1].flag
  /\ \E sub \in findSubscriptionByUserId(subs, req[1].user) :
       sub.cancelAtPeriodEnd /\ sub.status = "active" /\ sub.canceledAt = Absent

\* C10: cancel ends with NotFound after its lookup alone when the user has no
\* subscription; otherwise it asks the processor to cancel exactly when the
\* stored subscription has a processor subscription id, and the flag it passes
\* is the flag it then stores
C10_CancelProcessorCall ==
  [][/\ Looked(1, "cancel")
          => LET found == findSubscriptionByUserId(subs, req'[1].user)
             IN /\ found = {} => Refused(1, "NotFound")
                /\ \A sub \in found :
                     /\ req'[1].result = "none" /\ req'[1].ssub = sub.stripeSubscriptionId
                     /\ req'[1].pc = IF sub.stripeSubscriptionId # Absent
                                     THEN "stripeCancel" ELSE "persist"
     /\ Step(1, "cancel", "stripeCancel", "persist")
          => /\ stripe'.subs[req[1].ssub].cancelAtPeriodEnd = req[1].flag
             /\ req'[1].calls = <<"db.find", "stripe.cancelSubscription">>
     /\ Step(1, "cancel", "persist", "notify")
          => /\ req[1].ssub = Absent => req[1].calls = <<"db.find">> /\ stripe' = stripe
             /\ req[1].ssub # Absent => stripe'.subs[req[1].ssub].cancelAtPeriodEnd = req[1].flag
             /\ \A sub \in findSubscriptionByUserId(subs', req[1].user) :
                  sub.cancelAtPeriodEnd = req[1].flag]_vars

C10_Witness ==
  /\ req[1].op = "cancel" /\ req[1].result = "ok"
  /\ req[1].calls = <<"db.find", "stripe.cancelSubscription", "db.updateSubscription", "auth.update">>
  /\ \E sub \in findSubscriptionByUserId(subs, req[1].user) :
       /\ sub.stripeSubscriptionId = req[1].ssub
       /\ sub.cancelAtPeriodEnd = stripe.subs[req[1].ssub].cancelAtPeriodEnd
       /\ sub.cancelAtPeriodEnd = req[1].flag

\* the boundary of a subscription: the trial's end while the trial is active,
\* the current period's end otherwise
Boundary(sub) == IF sub.isTrialActive THEN sub.trialEnd ELSE sub.currentPeriodEnd

\* C11: isActive answers true exactly when the user has a subscription with
\* (isTrialActive and now < trialEnd) or (status active and now < currentPeriodEnd);
\* it answers false without a subscription and at the boundary instant itself
C11_IsActive ==
  req[1].op = "isActive" /\ req[1].pc = "done"
    => LET found == findSubscriptionByUserId(subs, req[1].user)
       IN /\ req[1].reply \subseteq BOOLEAN /\ Cardinality(req[1].reply) = 1
          /\ TRUE \in req[1].reply
               <=> \E sub \in found :
                     \/ sub.isTrialActive /\ now < sub.trialEnd
                     \/ sub.status = "active" /\ now < sub.currentPeriodEnd
          /\ found = {} => FALSE \in req[1].reply
          /\ \A sub \in found :
               /\ sub.isTrialActive /\ sub.status # "active" /\ now = sub.trialEnd
                    => FALSE \in req[1].reply
               /\ ~ sub.isTrialActive /\ now = sub.currentPeriodEnd => FALSE \in req[1].reply

C11_Witness ==
  /\ req[1].op = "isActive" /\ req[1].pc = "done" /\ req[1].reply = {FALSE}
  /\ \E sub \in findSubscriptionByUserId(subs, req[1].user) :
       sub.isTrialActive /\ sub.status = "trial" /\ now = sub.trialEnd

\* C12: the days remaining that getStatus computes are the least whole number of
\* days, not below 0, that reaches from now to the boundary (trialEnd while
\* isTrialActive, currentPeriodEnd otherwise): never negative, 0 once the boundary
\* has passed, 30 at the instant a fresh trial was created
C12_DaysRemaining ==
  [][req[1].pc = "idle" /\ req'[1].op = "getStatus"
       => \A st \in req'[1].reply :
            /\ st.daysRemaining >= 0
            /\ \A sub \in findSubscriptionByUserId(subs, req'[1].user) :
                 /\ st.daysRemaining * TicksPerDay >= Boundary(sub) - now
                 /\ st.daysRemaining > 0
                      => (st.daysRemaining - 1) * TicksPerDay < Boundary(sub) - now
                 /\ Boundary(sub) <= now => st.daysRemaining = 0
                 /\ sub.isTrialActive /\ sub.trialStart = now
                      /\ sub.trialEnd = TrialEndFrom(now) => st.daysRemaining = 30]_vars

C12_Witness ==
  /\ req[1].op = "getStatus" /\ req[1].pc = "active"
  /\ \E st \in req[1].reply, sub \in findSubscriptionByUserId(subs, req[1].user) :
       st.daysRemaining = 2 /\ Boundary(sub) - now = TicksPerDay + 1

\* the steps of the createSubscriptionWithCard request in slot 1
CardStep == req[1].op = "card" /\ req'[1] # req[1]

\* C13: a createSubscriptionWithCard that finds a subscription with the requested
\* plan, and meets no technical failure, returns without an error, creates no
\* processor customer and leaves the store as it was
C13_CardReentry ==
  [][CardStep /\ req[1].pc = "create" /\ req'[1].result # "Upstream"
       => /\ req'[1].pc = "done" /\ req'[1].result = "ok"
          /\ stripe' = stripe /\ subs' = subs]_vars

\* every subscription stored as card-validated belongs to a processor customer
\* that has the payment method attached and set as its default
ValidatedCardsAttached ==
  \A i \in 1 .. Len(subs) :
    subs[i].cardValidated
      => subs[i].stripeCustomerId \in stripe.attached \cap stripe.defaults

\* C14: createSubscriptionWithCard for a user without a subscription stores the
\* trial projection of create with cardValidated = true, after the payment method
\* was attached to the new customer and made its default; when the attach or the
\* set-default call fails nothing is stored; the request creates no payment
\* intent and writes no Payment
C14_CardCreatesValidatedTrial ==
  [][/\ ValidatedCardsAttached'
     /\ CardStep => payments' = payments
     /\ Step(1, "card", "persist", "notify")
          => /\ req[1].calls = <<"db.find", "stripe.createCustomer",
                                 "stripe.attachPaymentMethod", "stripe.updateCustomer">>
             /\ req[1].cust \in stripe.attached \cap stripe.defaults
             /\ subs' = Append(subs, [NewSubscription(TrialProjection(req[1].user,
                                        req[1].plan, req[1].cust, now))
                                        EXCEPT !.cardValidated = TRUE])
     /\ CardStep /\ req[1].pc \in {"attachNew", "defaultNew"} /\ req'[1].pc = "done"
          => subs' = subs /\ SubscriptionsOf(req[1].user) = 0]_vars

C14_Witness ==
  /\ req[1].op = "card" /\ req[1].result = "ok"
  /\ req[1].calls = <<"db.find", "stripe.createCustomer", "stripe.attachPaymentMethod",
                      "stripe.updateCustomer", "db.createSubscription", "auth.update">>
  /\ payments = <<>>
  /\ \E sub \in findSubscriptionByUserId(subs, req[1].user) :
       /\ sub.cardValidated /\ sub.status = "trial" /\ sub.plan = req[1].plan
       /\ sub.stripeCustomerId \in stripe.attached \cap stripe.defaults

\* the steps createSubscriptionWithCard takes for a subscription with another plan
ExistingPath == {"cpFind", "cpPersist", "cpNotify", "attach", "default", "validated"}

\* C15: createSubscriptionWithCard for a user whose subscription has another plan
\* changes the stored plan to the requested one through changePlan, and attaches
\* the card and stores cardValidated = true exactly when the subscription was not
\* card-validated before; the status, the trial window and all other fields stay
C15_CardChangesPlan ==
  [][/\ Looked(1, "card")
          => \A sub \in findSubscriptionByUserId(subs, req'[1].user) :
               sub.plan # req'[1].plan
                 => req'[1].pc = "cpFind" /\ req'[1].flag = ~ sub.cardValidated
     /\ CardStep /\ req[1].pc \in ExistingPath
          => OnlyChanged(subs, subs', req[1].user, {"plan", "cardValidated"})
     /\ Step(1, "card", "cpPersist", "cpNotify")
          => \A sub \in findSubscriptionByUserId(subs', req[1].user) : sub.plan = req[1].plan
     /\ CardStep /\ req[1].pc = "cpNotify"
          => req'[1].pc = IF req[1].flag THEN "attach" ELSE "notify"
     /\ Step(1, "card", "validated", "notify")
          => /\ req[1].cust \in stripe.attached \cap stripe.defaults
             /\ \A sub \in findSubscriptionByUserId(subs', req[1].user) :
                  sub.cardValidated /\ sub.stripeCustomerId = req[1].cust
     /\ CardStep /\ req[1].pc \in ExistingPath \ {"validated"}
          => \A sub \in findSubscriptionByUserId(subs, req[1].user),
                upd \in findSubscriptionByUserId(subs', req[1].user) :
               upd.cardValidated = sub.cardValidated]_vars

C15_Witness ==
  /\ req[1].op = "card" /\ req[1].result = "ok" /\ req[1].plan = "yearly"
  /\ \E i \in 1 .. Len(req[1].calls) : req[1].calls[i] = "db.changeSubscriptionPlan"
  /\ \E i \in 1 .. Len(req[1].calls) : req[1].calls[i] = "stripe.attachPaymentMethod"
  /\ \E sub \in findSubscriptionByUserId(subs, req[1].user) :
       sub.plan = "yearly" /\ sub.cardValidated /\ sub.status = "active" /\ ~ sub.isTrialActive

\* the same request for a subscription that has its card: no attachment
C15_WitnessValidated ==
  /\ req[1].op = "card" /\ req[1].result = "ok" /\ ~ req[1].flag
  /\ req[1].calls = <<"db.find", "db.find", "db.changeSubscriptionPlan", "auth.update",
                      "auth.update">>

\* a webhook request arrives in slot 1
WebhookReceived == req[1].pc = "idle" /\ req'[1].op = "webhook"

\* the steps of the webhook request in slot 1
WebhookStep == req[1].op = "webhook" /\ req'[1] # req[1]

\* the store has a subscription with processor subscription id
Known(id) == IndexesOfStripeSubscription(subs, id) # {}

\* the subscription an event about id is about changes in fields F at most, and
\* no other subscription changes
OnlyChangedOf(old, new, id, F) ==
  /\ Len(new) = Len(old)
  /\ \A i \in 1 .. Len(old) :
       IF i = FirstOf(IndexesOfStripeSubscription(old, id))
       THEN \A f \in DOMAIN old[i] \ F : new[i][f] = old[i][f]
       ELSE new[i] = old[i]

\* C16: a webhook request whose signature header is missing or does not verify
\* fails before anything else happens: the record store gets no call, and no
\* subscription or payment changes
C16_SignatureFirst ==
  [][WebhookReceived /\ req'[1].signature # "valid"
         => /\ req'[1].pc = "done" /\ req'[1].result = "Error"
            /\ req'[1].calls = <<>>
            /\ subs' = subs /\ payments' = payments]_vars

C16_Witness ==
  /\ req[1].op = "webhook" /\ req[1].result = "Error" /\ req[1].calls = <<>>
  /\ req[1].signature = "invalid"
  /\ Known(1) /\ payments # <<>>

\* the same for a request without the header
C16_WitnessMissing ==
  /\ req[1].op = "webhook" /\ req[1].result = "Error" /\ req[1].calls = <<>>
  /\ req[1].signature = "missing" /\ Known(1)

\* C17: a subscription event, or an invoice event with both references, about a
\* processor subscription id the store does not hold ends the request at its
\* lookup without an error: no payment is created and no subscription or
\* payment changes
C17_UnknownSubscriptionNoOp ==
  [][LET event == req'[1].event
     IN (/\ WebhookReceived /\ req'[1].result # "Upstream"
         /\ event.type \in SubscriptionEvents \cup InvoiceEvents
         /\ event.subscription # Absent /\ ~ Known(event.subscription)
         /\ (event.type \in InvoiceEvents => event.payment_intent # Absent))
        => /\ req'[1].pc = "done" /\ req'[1].result = "ok"
           /\ req'[1].calls = <<"db.findSubscription">>
           /\ subs' = subs /\ payments' = payments]_vars

C17_Witness ==
  /\ req[1].op = "webhook" /\ req[1].result = "ok"
  /\ req[1].event.type = "invoice.payment_succeeded"
  /\ req[1].event.subscription = 2 /\ req[1].event.payment_intent = 1
  /\ Known(1) /\ ~ Known(2)
  /\ req[1].calls = <<"db.findSubscription">>

\* the same for a subscription event
C17_WitnessDeleted ==
  /\ req[1].op = "webhook" /\ req[1].result = "ok"
  /\ req[1].event.type = "customer.subscription.deleted"
  /\ Known(1) /\ ~ Known(req[1].event.subscription)

\* the webhook request in slot 1 handles an invoice event of this type
Handling(type) == req[1].op = "webhook" /\ req[1].event.type = type

\* C18: an invoice.payment_failed event with both references about a known
\* subscription, whatever its status, appends exactly one payment (status
\* failed, amount = amount_due, with a failure reason) and then sets the
\* subscription's status to past_due; nothing else of any subscription changes
C18_PaymentFailed ==
  [][/\ LET event == req'[1].event
        IN (/\ WebhookReceived /\ req'[1].result # "Upstream"
            /\ event.type = "invoice.payment_failed"
            /\ InvoiceComplete(event) /\ Known(event.subscription))
           => req'[1].pc = "whPay" /\ subs' = subs /\ payments' = payments
     /\ (Handling("invoice.payment_failed") /\ WebhookStep /\ req[1].pc = "whPay"
          /\ req'[1].result # "Upstream")
          => /\ req'[1].pc = "whUpdate" /\ subs' = subs
             /\ Len(payments') = Len(payments) + 1
             /\ SubSeq(payments', 1, Len(payments)) = payments
             /\ LET payment == payments'[Len(payments')]
                IN /\ payment.status = "failed"
                   /\ payment.amount = req[1].event.amount_due
                   /\ payment.failureReason # "none"
                   /\ payment.stripePaymentIntentId = req[1].event.payment_intent
                   /\ payment.userId = req[1].user
     /\ (Handling("invoice.payment_failed") /\ WebhookStep /\ req[1].pc = "whUpdate"
          /\ req'[1].result # "Upstream")
          => /\ req'[1].pc = "done" /\ req'[1].result = "ok"
             /\ payments' = payments
             /\ OnlyChangedOf(subs, subs', req[1].event.subscription, {"status"})
             /\ \A i \in IndexesOfStripeSubscription(subs, req[1].event.subscription) :
                  i = FirstOf(IndexesOfStripeSubscription(subs, req[1].event.subscription))
                    => subs'[i].status = "past_due"]_vars

C18_Witness ==
  /\ req[1].op = "webhook" /\ req[1].result = "ok"
  /\ req[1].event.type = "invoice.payment_failed"
  /\ req[1].status = "canceled"
  /\ req[1].calls = <<"db.findSubscription", "db.createPayment", "db.updateSubscription">>
  /\ \E i \in IndexesOfStripeSubscription(subs, req[1].event.subscription) :
       subs[i].status = "past_due"
  /\ Len(payments) = 1 /\ payments[1].status = "failed" /\ payments[1].amount = 20

\* C19: an invoice.payment_succeeded event with both references about a known
\* subscription appends a payment with status succeeded, amount = amount_paid
\* and paidAt = the instant it was handled; a subscription found with a status
\* other than active is then made active with isTrialActive = false, and one
\* found active is not written
C19_PaymentSucceeded ==
  [][/\ LET event == req'[1].event
        IN (/\ WebhookReceived /\ req'[1].result # "Upstream"
            /\ event.type = "invoice.payment_succeeded"
            /\ InvoiceComplete(event) /\ Known(event.subscription))
           => /\ req'[1].pc = "whPay" /\ req'[1].at = now
              /\ \A i \in IndexesOfStripeSubscription(subs, event.subscription) :
                   i = FirstOf(IndexesOfStripeSubscription(subs, event.subscription))
                     => req'[1].status = subs[i].status
              /\ subs' = subs /\ payments' = payments
     /\ (Handling("invoice.payment_succeeded") /\ WebhookStep /\ req[1].pc = "whPay"
          /\ req'[1].result # "Upstream")
          => /\ subs' = subs
             /\ Len(payments') = Len(payments) + 1
             /\ SubSeq(payments', 1, Len(payments)) = payments
             /\ LET payment == payments'[Len(payments')]
                IN /\ payment.status = "succeeded"
                   /\ payment.amount = req[1].event.amount_paid
                   /\ payment.paidAt = req[1].at
                   /\ payment.stripePaymentIntentId = req[1].event.payment_intent
             /\ IF req[1].status = "active"
                THEN /\ req'[1].pc = "done" /\ req'[1].result = "ok"
                     /\ req'[1].calls = <<"db.findSubscription", "db.createPayment">>
                ELSE req'[1].pc = "whUpdate"
     /\ (Handling("invoice.payment_succeeded") /\ WebhookStep /\ req[1].pc = "whUpdate"
          /\ req'[1].result # "Upstream")
          => /\ req[1].status # "active"
             /\ req'[1].pc = "done" /\ req'[1].result = "ok"
             /\ payments' = payments
             /\ OnlyChangedOf(subs, subs', req[1].event.subscription,
                              {"status", "isTrialActive"})
             /\ \A i \in IndexesOfStripeSubscription(subs, req[1].event.subscription) :
                  i = FirstOf(IndexesOfStripeSubscription(subs, req[1].event.subscription))
                    => subs'[i].status = "active" /\ ~ subs'[i].isTrialActive]_vars

C19_Witness ==
  /\ req[1].op = "webhook" /\ req[1].result = "ok"
  /\ req[1].event.type = "invoice.payment_succeeded"
  /\ req[1].status = "past_due"
  /\ req[1].calls = <<"db.findSubscription", "db.createPayment", "db.updateSubscription">>
  /\ \E i \in IndexesOfStripeSubscription(subs, req[1].event.subscription) :
       subs[i].status = "active" /\ ~ subs[i].isTrialActive
  /\ Len(payments) = 1 /\ payments[1].status = "succeeded" /\ payments[1].amount = 15
  /\ payments[1].paidAt = BillingInstant /\ now = BillingInstant

\* the same for a subscription that was active: the payment alone is written
C19_WitnessActive ==
  /\ req[1].op = "webhook" /\ req[1].result = "ok"
  /\ req[1].event.type = "invoice.payment_succeeded"
  /\ req[1].status = "active"
  /\ req[1].calls = <<"db.findSubscription", "db.createPayment">>
  /\ Len(payments) = 1 /\ payments[1].status = "succeeded"

\* C20: an invoice event without a subscription reference or without a
\* payment-intent reference ends the request successfully at once: the record
\* store gets no call, no payment is created and no subscription changes
C20_IncompleteInvoiceNoOp ==
  [][(/\ WebhookReceived /\ req'[1].event.type \in InvoiceEvents
      /\ \/ req'[1].event.subscription = Absent
         \/ req'[1].event.payment_intent = Absent)
         => /\ req'[1].pc = "done" /\ req'[1].result = "ok"
            /\ req'[1].calls = <<>>
            /\ subs' = subs /\ payments' = payments]_vars

C20_Witness ==
  /\ req[1].op = "webhook" /\ req[1].result = "ok" /\ req[1].calls = <<>>
  /\ req[1].event.type = "invoice.payment_failed"
  /\ req[1].event.subscription = 1 /\ req[1].event.payment_intent = Absent
  /\ Known(1) /\ payments = <<>>

\* the same for an invoice without a subscription reference
C20_WitnessNoSubscription ==
  /\ req[1].op = "webhook" /\ req[1].result = "ok" /\ req[1].calls = <<>>
  /\ req[1].event.type = "invoice.payment_succeeded"
  /\ req[1].event.subscription = Absent /\ req[1].event.payment_intent = 1
  /\ \E i \in 1 .. Len(subs) : subs[i].stripeSubscriptionId = Absent

\* C21: however often the processor delivers an invoice event, also after a
\* handler failed part-way, the store holds at most one payment per processor
\* payment-intent id
C21_OnePaymentPerIntent ==
  \A i, j \in 1 .. Len(payments) :
    payments[i].stripePaymentIntentId = payments[j].stripePaymentIntentId => i = j

\* C26: a payment that has succeeded never becomes failed, and a payment that
\* has failed never becomes succeeded
C26_PaymentStatusMonotonic ==
  [][\A i \in 1 .. Len(payments) :
       /\ payments[i].status = "succeeded" => payments'[i].status # "failed"
       /\ payments[i].status = "failed" => payments'[i].status # "succeeded"]_vars

\* C29: a subscription event that has changed a known subscription has the
\* identity service notified by the time its request is answered
C29_SubscriptionEventNotifies ==
  /\ req[1].op = "webhook" /\ req[1].pc = "done"
  /\ req[1].event.type \in SubscriptionEvents
  /\ \E i \in 1 .. Len(req[1].calls) : req[1].calls[i] = "db.updateSubscription"
  => \E i \in 1 .. Len(req[1].calls) : req[1].calls[i] \in {"auth.update", "auth.update.failed"}

\* C30: in every reachable state a subscription with isTrialActive has status
\* trial or active
C30_TrialActiveStatus ==
  \A i \in 1 .. Len(subs) : subs[i].isTrialActive => subs[i].status \in {"trial", "active"}

\* the webhook request in slot 1 writes the subscription its event is about
SubscriptionWritten(types) ==
  /\ req[1].op = "webhook" /\ req[1].event.type \in types
  /\ req[1].pc = "whUpdate" /\ req'[1].pc = "done" /\ req'[1].result = "ok"

\* the subscription an event about id is about, before and after a step
Stored(id) == subs[FirstOf(IndexesOfStripeSubscription(subs, id))]
StoredNext(id) == subs'[FirstOf(IndexesOfStripeSubscription(subs, id))]

\* the write of a subscription event of one of types takes the status, the
\* period, the cancelAtPeriodEnd flag and, when there is one, the cancellation
\* time from the event, and nothing else
SubscriptionEventApplied(types) ==
  SubscriptionWritten(types)
    => LET event == req[1].event
           old == Stored(event.subscription)
           new == StoredNext(event.subscription)
       IN /\ new.status = IF event.status = "trialing" THEN "trial"
                          ELSE IF event.status \in {"active", "past_due"} THEN event.status
                          ELSE IF event.status = "canceled" THEN "canceled"
                          ELSE "unpaid"
          /\ EpochSeconds(new.currentPeriodStart) = event.current_period_start
          /\ EpochSeconds(new.currentPeriodEnd) = event.current_period_end
          /\ new.cancelAtPeriodEnd = event.cancel_at_period_end
          /\ IF event.canceled_at # Absent
             THEN EpochSeconds(new.canceledAt) = event.canceled_at
             ELSE new.canceledAt = old.canceledAt
          /\ OnlyChangedOf(subs, subs', event.subscription,
                           {"status", "currentPeriodStart", "currentPeriodEnd",
                            "cancelAtPeriodEnd", "canceledAt"})
          /\ payments' = payments

\* C22: a customer.subscription.created or .updated event about a known
\* subscription stores the mapped status, the processor's period bounds, the
\* processor's cancelAtPeriodEnd flag and, when and only when the processor
\* reports one, its cancellation time; plan, trial window, isTrialActive and
\* nextBillingDate stay as they were
C22_SubscriptionEventApplied ==
  [][SubscriptionEventApplied({"customer.subscription.created",
                               "customer.subscription.updated"})]_vars

\* C23: the mapping of processor statuses is total and conservative:
\* trialing gives trial; active, past_due and unpaid give themselves; canceled
\* and cancelled give canceled; every other status gives unpaid, never active
\* or trial
C23_MappingConservative ==
  \A s \in 1 .. MaxSlots :
    (req[s].op \in {"mapStripeStatus", "mapStripeStatusDirect"} /\ req[s].pc = "done")
      => LET stripeStatus == req[s].event.status
         IN req[s].status =
              IF stripeStatus = "trialing" THEN "trial"
              ELSE IF stripeStatus \in {"active", "past_due", "unpaid"} THEN stripeStatus
              ELSE IF stripeStatus \in {"canceled", "cancelled"} THEN "canceled"
              ELSE "unpaid"

\* C24: a customer.subscription.deleted event about a known subscription sets
\* its status to canceled and its canceledAt to the time of handling, whatever
\* the status was, and leaves every other field (plan, period bounds,
\* cancelAtPeriodEnd) and every other subscription as it was
C24_SubscriptionDeleted ==
  [][SubscriptionWritten({"customer.subscription.deleted"})
       => /\ StoredNext(req[1].event.subscription).status = "canceled"
          /\ StoredNext(req[1].event.subscription).canceledAt = req[1].at
          /\ req[1].at \in Int /\ req[1].at # Absent /\ req[1].at <= now
          /\ OnlyChangedOf(subs, subs', req[1].event.subscription, {"status", "canceledAt"})
          /\ payments' = payments]_vars

\* the deletion has been written for the subscription the event is about
DeletedWritten ==
  /\ req[1].op = "webhook" /\ req[1].pc = "done" /\ req[1].result = "ok"
  /\ req[1].event.type = "customer.subscription.deleted"
  /\ Known(req[1].event.subscription)
  /\ Stored(req[1].event.subscription).status = "canceled"
  /\ Stored(req[1].event.subscription).canceledAt = req[1].at

\* the first event delivered deletes the active paid subscription, which keeps
\* its plan and its period
C24_Witness ==
  /\ DeletedWritten /\ delivered = 1
  /\ Stored(req[1].event.subscription).plan = "monthly"
  /\ Stored(req[1].event.subscription).cancelAtPeriodEnd = FALSE

\* the deletion follows an update that set the cancelAtPeriodEnd flag and the
\* period, which are kept
C24_WitnessFlagKept ==
  /\ DeletedWritten /\ delivered = 2
  /\ Stored(req[1].event.subscription).cancelAtPeriodEnd = TRUE
  /\ Stored(req[1].event.subscription).currentPeriodStart = BillingInstant

\* payment i changes in fields F at most, and no other payment changes
OnlyPaymentChanged(old, new, i, F) ==
  /\ Len(new) = Len(old)
  /\ \A j \in 1 .. Len(old) :
       IF j = i THEN \A f \in DOMAIN old[j] \ F : new[j][f] = old[j][f]
       ELSE new[j] = old[j]

\* C25: a payment_intent.succeeded or payment_intent.payment_failed event
\* never creates a payment and never changes a subscription; when a payment
\* with the event's payment-intent id exists it becomes succeeded with paidAt
\* the time of handling, or failed with a failure reason, and nothing else
\* about it changes; when the lookup answers that there is none, the request
\* succeeds after that one call and the payments stay as they were
C25_PaymentIntentUpdatesOnly ==
  [][/\ (WebhookReceived /\ req'[1].event.type \in PaymentIntentEvents)
          => /\ payments' = payments /\ subs' = subs
             /\ (/\ IndexesOfPaymentIntent(payments, req'[1].event.payment_intent) = {}
                 /\ req'[1].calls # <<"db.find.failed">>)
                  => /\ req'[1].pc = "done" /\ req'[1].result = "ok"
                     /\ req'[1].calls = <<"db.findPayment">>
     /\ (WebhookStep /\ req[1].event.type \in PaymentIntentEvents)
          => /\ subs' = subs
             /\ Len(payments') = Len(payments)
             /\ payments' # payments => req[1].pc = "whPayUpdate"
             /\ (req[1].pc = "whPayUpdate" /\ req'[1].result = "ok")
                  => \E i \in 1 .. Len(payments) :
                       /\ payments[i].stripePaymentIntentId = req[1].event.payment_intent
                       /\ IF req[1].event.type = "payment_intent.succeeded"
                          THEN /\ payments'[i].status = "succeeded"
                               /\ payments'[i].paidAt = req[1].at /\ req[1].at # Absent
                               /\ OnlyPaymentChanged(payments, payments', i, {"status", "paidAt"})
                          ELSE /\ payments'[i].status = "failed"
                               /\ payments'[i].failureReason # "none"
                               /\ OnlyPaymentChanged(payments, payments', i,
                                                     {"status", "failureReason"})]_vars

\* a payment_intent.succeeded event has marked the failed payment of its
\* payment intent as paid
C25_Witness ==
  /\ req[1].op = "webhook" /\ req[1].pc = "done" /\ req[1].result = "ok"
  /\ req[1].event.type = "payment_intent.succeeded"
  /\ req[1].calls = <<"db.findPayment", "db.updatePayment">>
  /\ \E i \in 1 .. Len(payments) :
       /\ payments[i].stripePaymentIntentId = req[1].event.payment_intent
       /\ payments[i].status = "succeeded" /\ payments[i].paidAt = req[1].at
       /\ payments[i].failureReason # "none"

\* a payment_intent.payment_failed event about a payment intent that no
\* stored payment carries has succeeded, and the one stored payment is as the
\* invoice event made it
C25_WitnessUnknown ==
  /\ req[1].op = "webhook" /\ req[1].pc = "done" /\ req[1].result = "ok"
  /\ req[1].event.type = "payment_intent.payment_failed"
  /\ req[1].calls = <<"db.findPayment">>
  /\ Len(payments) = 1 /\ payments[1].status = "succeeded"
  /\ payments[1].stripePaymentIntentId # req[1].event.payment_intent

\* the calls of request r that were rejected
FailedCalls(r) ==
  {i \in 1 .. Len(r.calls) :
     r.calls[i] \in {"db.find.failed", "db.createPayment.failed",
                     "db.updateSubscription.failed", "db.updatePayment.failed"}}

\* C27: a webhook request is answered {received: true} only when its
\* signature verified and every call its handler reached was served; a
\* signature that does not verify or a rejected call ends it with an error
\* instead, and a lookup that finds no local record ends it with success
C27_ReceivedOnlyAfterSuccess ==
  \A s \in 1 .. MaxSlots :
    req[s].op = "webhook"
      => /\ req[s].result = "ok"
              => /\ req[s].pc = "done" /\ req[s].signature = "valid"
                 /\ FailedCalls(req[s]) = {}
         /\ (req[s].pc = "done" /\ (req[s].signature # "valid" \/ FailedCalls(req[s]) # {}))
              => req[s].result \in {"Error", "Upstream"}
         /\ (/\ req[s].pc = "done" /\ req[s].signature = "valid"
             /\ req[s].calls \in {<<"db.findSubscription">>, <<"db.findPayment">>})
              => req[s].result = "ok"
         /\ req[s].pc # "done" => req[s].result = "none"

\* the update of the subscription that a verified event is about was rejected,
\* and the request ended with an error
C27_Witness ==
  /\ req[1].op = "webhook" /\ req[1].pc = "done" /\ req[1].signature = "valid"
  /\ req[1].calls = <<"db.findSubscription", "db.updateSubscription.failed">>
  /\ req[1].result = "Upstream"

\* a verified subscription event about a subscription the store does not hold
\* was answered with success
C27_WitnessNoRecord ==
  /\ req[1].op = "webhook" /\ req[1].pc = "done" /\ req[1].signature = "valid"
  /\ req[1].event.type \in SubscriptionEvents /\ ~ Known(req[1].event.subscription)
  /\ req[1].calls = <<"db.findSubscription">>
  /\ req[1].result = "ok"

\* C28: whether the notification of the identity service is delivered or
\* fails, the operation that sent it after its writes ends with its success
\* result, and the stored subscriptions and the processor's state are what the
\* writes left: a failed notification differs from a delivered one in the log
\* of calls alone
C28_NotificationFailureSwallowed ==
  [][\A s \in Slots :
       (req[s].pc = "notify" /\ req'[s] # req[s])
         => /\ \E call \in {"auth.update", "auth.update.failed"} :
                 req'[s] = [req[s] EXCEPT !.pc = "done", !.result = "ok",
                                          !.calls = Append(@, call)]
            /\ subs' = subs /\ stripe' = stripe /\ payments' = payments]_vars

\* the paid subscription was created at the processor and stored, the
\* notification failed, and the request succeeded with the active subscription
\* in the store
C28_Witness ==
  /\ req[1].op = "startPaid" /\ req[1].pc = "done" /\ req[1].result = "ok"
  /\ req[1].calls[Len(req[1].calls)] = "auth.update.failed"
  /\ \E i \in 1 .. Len(subs) :
       /\ subs[i].userId = req[1].user /\ subs[i].status = "active"
       /\ subs[i].stripeSubscriptionId # Absent

\* C31: GET /subscriptions/user/{userId} is answered NotFound when the store
\* holds no subscription of the user, and with the stored subscription
\* otherwise
C31_FindByUserIdNotFound ==
  (req[1].op = "findByUserId" /\ req[1].pc = "done")
    => IF IndexesOfUser(subs, req[1].user) = {}
       THEN req[1].result = "NotFound"
       ELSE /\ req[1].result = "ok"
            /\ \E i \in IndexesOfUser(subs, req[1].user) : req[1].reply = {subs[i]}

\* C32: GET / and GET /health are answered with success and the same payload
\* (status OK, the service's name, its version, the time of the request)
\* whatever the store holds, with no call to the store, the processor or the
\* identity service, and change nothing
C32_HealthAlwaysOk ==
  [][\A s \in Slots :
       (req[s].pc = "idle" /\ req'[s].op \in HealthRoutes)
         => /\ req'[s].pc = "done" /\ req'[s].result = "ok"
            /\ req'[s].reply = {[status |-> "OK", service |-> "Penpal AI Payment Service",
                                 version |-> "1.0.0", timestamp |-> now]}
            /\ req'[s].calls = <<>>
            /\ subs' = subs /\ payments' = payments /\ stripe' = stripe]_vars

\* GET /health was answered while the store holds a canceled subscription
C32_Witness ==
  /\ req[1].op = "getHealthAlternative" /\ req[1].pc = "done" /\ req[1].result = "ok"
  /\ \E st \in req[1].reply : st.status = "OK" /\ st.timestamp = now
  /\ Len(subs) = 1 /\ subs[1].status = "canceled"

\* GET / was answered while the store is empty
C32_WitnessRoot ==
  /\ req[1].op = "getHealth" /\ req[1].pc = "done" /\ req[1].result = "ok"
  /\ \E st \in req[1].reply : st.status = "OK"
  /\ subs = <<>>

\* the calls to the processor, served or rejected
StripeCalls ==
  {"stripe.createCustomer", "stripe.attachPaymentMethod", "stripe.updateCustomer",
   "stripe.createSubscription", "stripe.cancelSubscription"}
StripeCallsFailed ==
  {"stripe.createCustomer.failed", "stripe.attachPaymentMethod.failed",
   "stripe.updateCustomer.failed", "stripe.createSubscription.failed",
   "stripe.cancelSubscription.failed"}

\* the writes to the store, served or rejected, and the notifications
StoreWrites == {"db.createSubscription", "db.updateSubscription", "db.changeSubscriptionPlan"}
StoreWritesFailed == {"db.write.failed"}
Notifications == {"auth.update", "auth.update.failed"}

\* the positions of the calls of A in the log c
Positions(c, A) == {i \in 1 .. Len(c) : c[i] \in A}

\* the calls of a request come in the order processor, store write,
\* notification, each at most once, and nothing follows a rejected call
CallsInOrder(c) ==
  /\ \A i \in Positions(c, StoreWrites \cup StoreWritesFailed \cup Notifications) :
       \A j \in Positions(c, StripeCalls \cup StripeCallsFailed) : j < i
  /\ \A i \in Positions(c, Notifications) :
       \A j \in Positions(c, StoreWrites \cup StoreWritesFailed) : j < i
  /\ Cardinality(Positions(c, StoreWrites \cup StoreWritesFailed)) <= 1
  /\ Cardinality(Positions(c, Notifications)) <= 1
  /\ \A call \in StripeCalls :
       Cardinality(Positions(c, {call})) <= 1
  /\ Positions(c, {"db.find.failed"} \cup StripeCallsFailed) # {}
       => Positions(c, StoreWrites \cup Notifications) = {}
  /\ Positions(c, StoreWritesFailed) # {} => Positions(c, Notifications) = {}

\* C33: the calls of create, createSubscriptionWithCard, startPaidSubscription
\* and cancel are issued in the order processor, store write, identity
\* notification, each at most once; after a rejected lookup or processor call
\* no write and no notification is issued, after a rejected write no
\* notification
C33_CallOrder ==
  \A s \in Slots :
    req[s].op \in {"create", "card", "startPaid", "cancel"} => CallsInOrder(req[s].calls)

\* C34: when a cancel with cancelAtPeriodEnd = false has completed, and until
\* the next request is served, isActive answers false for the user at every
\* instant, also when the subscription was cancelled during its trial
C34_InactiveAfterCancelNow ==
  (/\ req[1].op = "cancel" /\ req[1].pc = "done" /\ req[1].result = "ok"
   /\ ~ req[1].flag)
    => ~ isActive(findSubscriptionByUserId(subs, req[1].user), now)

\* C35: no step of the handling of an invoice.payment_succeeded or
\* invoice.payment_failed event makes a subscription whose status is canceled
\* active or past_due
C35_CanceledTerminal ==
  [][(req[1].op = "webhook" /\ req[1].event.type \in InvoiceEvents)
       => \A i \in 1 .. Len(subs) :
            subs[i].status = "canceled" => subs'[i].status \notin {"active", "past_due"}]_vars

\* C36: however the startPaidSubscription requests of a user overlap, the
\* processor holds at most one subscription for the user's customer
C36_OneProcessorSubscription ==
  \A i, j \in 1 .. Len(stripe.subs) :
    stripe.subs[i].customer = stripe.subs[j].customer => i = j

\* C37: when startPaidSubscription has stored the processor subscription it
\* created, every invoice event of that subscription which the processor has
\* stopped delivering, because a delivery was answered with success, leads to
\* a payment of its payment intent in the store
C37_NoBillingEventLost ==
  \A id \in 1 .. MaxStripeSubs :
    (id \in stripe.acknowledged /\ Known(id)) ~> (IndexesOfPaymentIntent(payments, id) # {})

\* C38: every notification a lifecycle operation sends to the identity service
\* carries the plan and the status that the store holds for the user
C38_NotificationMatchesStore ==
  [][\A s \in Slots :
       (req[s].pc \in {"notify", "cpNotify"} /\ req'[s] # req[s])
         => \E sub \in findSubscriptionByUserId(subs, req[s].user) :
              sub.status = req[s].status /\ sub.plan = req[s].plan]_vars

\* C39: a createSubscriptionWithCard that ends with an error has left the
\* stored subscription as it was: none of its calls was a served write to the
\* store (the write of the plan is issued only when the stored plan differs,
\* so a served one has changed the subscription)
C39_CardAllOrNothing ==
  \A s \in Slots :
    (req[s].op = "card" /\ req[s].pc = "done" /\ req[s].result # "ok")
      => Positions(req[s].calls, StoreWrites) = {}

\* C40: in every reachable state the nextBillingDate of a stored subscription
\* is its currentPeriodEnd
C40_NextBillingIsPeriodEnd ==
  \A i \in 1 .. Len(subs) : subs[i].nextBillingDate = subs[i].currentPeriodEnd

====
